---------------------------- MODULE Spec2Model ----------------------------
(***************************************************************************)
(* A model of the XMR/BTC atomic swap of xmr-btc-swap: Bob's state machine *)
(* (xmr-btc/src/bob.rs), the signature helpers (swap/src/bitcoin.rs), the  *)
(* swap-state store (swap/src/storage.rs), and the parts of the world his  *)
(* transitions talk to: the Bitcoin node behind the wallet, the Monero     *)
(* wallet, and Alice.                                                       *)
(*                                                                         *)
(* Scalars are small naturals; a curve point k.G is the record             *)
(* [curve, k], so key arithmetic (S_a + S_b, v_a + v_b, s_a + s_b) is       *)
(* integer arithmetic on k.  Signatures are ECDSA and its adaptor variant  *)
(* computed in a group of prime order 31: (R_x, s) and (R, R_hat, s_hat).  *)
(***************************************************************************)
EXTENDS Integers, Sequences, FiniteSets, TLC

VARIABLES
    bob,        \* the bob::State value the caller holds (tag "Dropped": moved and lost)
    bobPc,      \* the await next_state is suspended in, "idle" when none runs
    kept,       \* the clone of a State2 or State3 the caller has kept, or none
    refundPc,   \* the await refund_btc is suspended in, "idle" when none runs
    local,      \* what the suspended arm of next_state has bound: a message, a state
    lastErr,    \* the error of the last next_state / refund_btc call, "none" when Ok
    sent,       \* the bob::Message values Bob's transport has sent to Alice
    received,   \* the alice::Message values Bob's transport has handed to next_state
    calls,      \* the wallet calls Bob has made (BuildTxLockPsbt, CheckTransfer, ...)
    chain,      \* the Bitcoin transactions known to the node, with confirmations
    xmrChain,   \* the Monero transfers Alice has made
    db,         \* the sled database: swap_id -> stored bytes
    xmr_bob,    \* the balance of Bob's Monero wallet
    alicePc,    \* where Alice's swap() stands: its loop, its awaits, parked, returned, panicked
    last_amounts, \* swap()'s last_amounts: the amounts of the last request, or none
    aliceState, \* the xmr_btc::alice state swap() holds
    aliceSent,  \* the responses Alice's swarm has sent to Bob, each with its channel
    channels,   \* the response channels the swarm has handed to swap() with a request
    nEvents,    \* how many swarm events swap() has taken
    aliceEvents, \* the kinds of the events swap() has taken from swarm.next(), in order
    disk,       \* what the database holds on disk: the tree as of the last completed flush
    writers,    \* the insert_latest_state calls in progress, one per caller
    inserted,   \* the swap ids for which an insert_latest_state call has returned Ok
    got,        \* what the last get_latest_state call returned
    call,       \* the last call of a function of the library: its name and arguments
    ret,        \* what that call returned
    asb         \* the automated swap backend: its flag, its channel of swaps, its tasks

vars == <<bob, bobPc, kept, refundPc, local, lastErr, sent, received, calls, chain,
          xmrChain, db, xmr_bob,
          alicePc, last_amounts, aliceState, aliceSent, channels, nEvents, aliceEvents,
          disk, writers, inserted, got, call, ret, asb>>

\* The variables of Alice's swap() and those of the callers of the store.
aliceVars ==
    <<alicePc, last_amounts, aliceState, aliceSent, channels, nEvents, aliceEvents>>
storeVars == <<disk, writers, inserted, got>>
\* The variables of the calls of the library's functions.
callVars == <<call, ret>>
\* The variable of the automated swap backend.
asbVars == <<asb>>
\* What the caller of Bob's methods holds besides the state: its clone, its refund call.
cloneVars == <<kept, refundPc>>
\* The variables of Bob's swap other than the database.
bobVars ==
    <<bob, bobPc, cloneVars, local, lastErr, sent, received, calls, chain, xmrChain, xmr_bob>>

----------------------------------------------------------------------------
(* Bounds of the model.                                                    *)

\* The relative timelock of TxCancel, in blocks (refund_timelock of State0::new).
RefundTimelock == 2
\* The relative timelock of TxPunish, in blocks (punish_timelock of State0::new).
PunishTimelock == 2
\* How many Monero transfers Alice makes at most.
MaxXmrTransfers == 2

\* Confirmations are counted up to the sum of the two timelocks.
MaxConf == RefundTimelock + PunishTimelock

----------------------------------------------------------------------------
(* Secrets and parameters of the two parties.                              *)

\* What Alice holds: her Bitcoin key a, her cross-curve scalar s_a, her view
\* key share v_a, her two addresses; `other` is a scalar that is nobody's key.
AliceKeys == [a |-> 11, s_a |-> 13, v_a |-> 17, other |-> 19,
              redeem_address |-> "alice_redeem", punish_address |-> "alice_punish"]

\* The arguments of bob::State0::new and the scalars its rng draws.
BobParams == [b |-> 23, s_b |-> 29, v_b |-> 31, btc |-> 5, xmr |-> 7,
              refund_address |-> "bob_refund"]

\* The swap ids of the database; Bob's swap is SwapId.
SwapIds == {"swap1", "swap2"}
SwapId == "swap1"

----------------------------------------------------------------------------
(* Keys, proofs, signatures.                                               *)

Secp(k) == [curve |-> "secp256k1", k |-> k]
Ed(k) == [curve |-> "ed25519", k |-> k]
NoPoint == [curve |-> "none", k |-> 0]

\* CompressedEdwardsY::decompress: a compressed point that is on the curve.
decompress_ok(P) == P.curve = "ed25519" /\ P.k > 0

NoTx == [id |-> "none", input |-> "none", timelock |-> 0, to |-> "none",
         amount |-> 0, A |-> NoPoint, B |-> NoPoint]
NoSig == [signer |-> NoPoint, digest |-> NoTx, R_x |-> 0, s |-> 0]
NoEncSig == [signer |-> NoPoint, digest |-> NoTx, R |-> NoPoint, R_hat |-> NoPoint,
             s_hat |-> 0]
NoProof == [k |-> 0]

\* cross_curve_dleq::Proof::new
dleq_prove(s) == [k |-> s]
\* cross_curve_dleq::Proof::verify: the same scalar under both points.
dleq_verify(proof, P_secp, P_ed) ==
    /\ P_secp.curve = "secp256k1" /\ P_ed.curve = "ed25519"
    /\ proof.k > 0 /\ P_secp.k = proof.k /\ P_ed.k = proof.k

\* The group of the signatures has prime order 31: its non-zero scalars, their
\* inverses and negation.
Scalars == 1 .. 30
Inverses == [x \in Scalars |-> CHOOSE i \in Scalars : (i * x) % 31 = 1]
invert(x) == Inverses[x]
negate(x) == (31 - x) % 31
\* The x-coordinate of the point k.G, as a scalar: k.G and -k.G share it.
x_coordinate(P) ==
    LET k == P.k % 31
    IN  IF 2 * k > 31 THEN 31 - k ELSE k
\* Signatures are normalised to the lower of s and -s.
low_s(s) == IF 2 * s > 31 THEN 31 - s ELSE s
\* The scalar a sighash stands for.
to_scalar(d) ==
    LET n == CASE d.id = "cancel" -> 1 [] d.id = "refund" -> 2 [] d.id = "redeem" -> 3
               [] d.id = "punish" -> 4 [] OTHER -> 6
    IN  (n + 5 * d.amount + 3 * d.timelock) % 31
\* s = r^-1 (m + R_x x), the equation of ECDSA.
ecdsa_s(r, R_x, sk, d) == (invert(r) * ((to_scalar(d) + R_x * sk) % 31)) % 31
\* Deterministic<Sha256>: the nonce is a function of the key and of what is signed;
\* those that would give s = 0 are passed over.
nonce(sk, Y, d) ==
    LET y == IF Y.k % 31 = 0 THEN 1 ELSE Y.k % 31
        from(i) == 1 + ((7 * sk + 3 * Y.k + to_scalar(d) + i) % 30)
        usable(r) == ecdsa_s(r, x_coordinate(Secp((r * y) % 31)), sk, d) # 0
    IN  from(CHOOSE i \in 0 .. 29 :
                usable(from(i)) /\ \A j \in 0 .. (i - 1) : ~usable(from(j)))

\* SecretKey::public
public(sk) == Secp(sk)
\* SecretKey::sign: ECDSA, R = r.G.  A signature is (R_x, s); signer and digest
\* stand for what it cannot be brought to verify under by chance.
sign(sk, d) ==
    LET r == nonce(sk, NoPoint, d)
        R_x == x_coordinate(Secp(r))
    IN  [signer |-> Secp(sk), digest |-> d, R_x |-> R_x,
         s |-> low_s(ecdsa_s(r, R_x, sk, d))]
\* SecretKey::encsign: the ECDSA adaptor signature (R, R_hat, s_hat) under the
\* encryption key Y, with R_hat = r.G, R = r.Y and s_hat = r^-1 (m + R_x x).
encsign(sk, Y, d) ==
    LET r == nonce(sk, Y, d)
        R == Secp((r * Y.k) % 31)
    IN  [signer |-> Secp(sk), digest |-> d, R |-> R, R_hat |-> Secp(r),
         s_hat |-> ecdsa_s(r, x_coordinate(R), sk, d)]
\* Adaptor::decrypt_signature: s = s_hat y^-1, normalised.
decrypt_signature(y, encsig) ==
    [signer |-> encsig.signer, digest |-> encsig.digest,
     R_x |-> x_coordinate(encsig.R),
     s |-> IF y % 31 \in Scalars THEN low_s((encsig.s_hat * invert(y % 31)) % 31) ELSE 0]

\* bitcoin::verify_sig: ECDSA verification, the x-coordinate of
\* s^-1 (m.G + R_x.X) is R_x.
verify_sig(verification_key, transaction_sighash, sig) ==
    /\ sig.signer = verification_key
    /\ sig.signer.curve = "secp256k1"
    /\ sig.digest = transaction_sighash
    /\ sig.s \in Scalars /\ sig.R_x \in Scalars
    /\ x_coordinate(Secp(ecdsa_s(sig.s, sig.R_x, verification_key.k, transaction_sighash)))
          = sig.R_x

\* bitcoin::verify_encsig: R_hat and R have the same logarithm to the bases G and Y,
\* and R_hat = s_hat^-1 (m.G + R_x.X).
verify_encsig(verification_key, encryption_key, d, encsig) ==
    /\ encsig.signer = verification_key
    /\ encsig.signer.curve = "secp256k1"
    /\ encsig.digest = d
    /\ encryption_key.curve = "secp256k1"
    /\ encsig.R.k = (encsig.R_hat.k * encryption_key.k) % 31
    /\ encsig.s_hat \in Scalars /\ encsig.R.k \in Scalars
    /\ encsig.R_hat.k = ecdsa_s(encsig.s_hat, x_coordinate(encsig.R), verification_key.k, d)

\* bitcoin::recover: the decryption key y = s^-1 s_hat or its negation, whichever
\* is the logarithm of S; an error when sig and encsig are not of one nonce or
\* neither is.
recover(S, sig, encsig) ==
    IF sig.s \notin Scalars \/ sig.R_x # x_coordinate(encsig.R)
    THEN [ok |-> FALSE, s |-> 0]
    ELSE LET y == (invert(sig.s) * encsig.s_hat) % 31
         IN  IF Secp(y) = S THEN [ok |-> TRUE, s |-> y]
             ELSE IF Secp(negate(y)) = S THEN [ok |-> TRUE, s |-> negate(y)]
             ELSE [ok |-> FALSE, s |-> 0]

----------------------------------------------------------------------------
(* The transaction family, as Bob's code builds it.                        *)

\* bitcoin::TxLock::new: funded by Bob's wallet, pays the 2-of-2 of A and B.
TxLock_new(amount, A, B) ==
    [id |-> "lock", input |-> "funding", timelock |-> 0, to |-> "AB",
     amount |-> amount, A |-> A, B |-> B]
\* A TxCancel that spends an output other than TxLock's.
TxCancel_new_spending_another_output(tx_lock, timelock, A, B) ==
    [id |-> "cancel", input |-> "another", timelock |-> timelock, to |-> "AB",
     amount |-> tx_lock.amount, A |-> A, B |-> B]

\* bitcoin::TxCancel::new: spends TxLock after the relative timelock, to the 2-of-2.
TxCancel_new(tx_lock, timelock, A, B) ==
    [id |-> "cancel", input |-> tx_lock.id, timelock |-> timelock, to |-> "AB",
     amount |-> tx_lock.amount, A |-> A, B |-> B]
\* bitcoin::TxRefund::new: spends TxCancel to Bob's refund address.
TxRefund_new(tx_cancel, refund_address) ==
    [id |-> "refund", input |-> tx_cancel.id, timelock |-> 0, to |-> refund_address,
     amount |-> tx_cancel.amount, A |-> tx_cancel.A, B |-> tx_cancel.B]
\* bitcoin::TX_FEE: the fee TxRedeem pays out of TxLock's output, in satoshi.
TX_FEE == 1

\* bitcoin::TxRedeem::new: spends TxLock to Alice's redeem address, less the fee.
TxRedeem_new(tx_lock, redeem_address) ==
    [id |-> "redeem", input |-> tx_lock.id, timelock |-> 0, to |-> redeem_address,
     amount |-> tx_lock.amount - TX_FEE, A |-> tx_lock.A, B |-> tx_lock.B]
\* bitcoin::TxPunish::new: spends TxCancel after the punish timelock.
TxPunish_new(tx_cancel, punish_address, punish_timelock) ==
    [id |-> "punish", input |-> tx_cancel.id, timelock |-> punish_timelock,
     to |-> punish_address, amount |-> tx_cancel.amount,
     A |-> tx_cancel.A, B |-> tx_cancel.B]
\* The sighash of a transaction commits to the whole transaction.
digest(tx) == tx

----------------------------------------------------------------------------
(* The Bitcoin node behind the wallet.  chain holds one entry per known     *)
(* transaction: the transaction, its witness and its confirmations (0: in  *)
(* the mempool).                                                           *)

FamilyIds == {"lock", "cancel", "refund", "redeem", "punish"}
NoWitness == [sig_a |-> NoSig, sig_b |-> NoSig]

Known(ch, txid) == \E e \in ch : e.tx.id = txid
Entry(ch, txid) == CHOOSE e \in ch : e.tx.id = txid
Confirmed(ch, txid) == \E e \in ch : e.tx.id = txid /\ e.conf >= 1

\* The output a transaction spends exists, is old enough for the relative
\* timelock (BIP68) and, for the 2-of-2 outputs, is unlocked by both signatures.
InputOk(ch, tx, witness) ==
    IF tx.input \in FamilyIds
    THEN \E e \in ch :
            /\ e.tx.id = tx.input
            /\ e.conf >= tx.timelock
            /\ verify_sig(e.tx.A, digest(tx), witness.sig_a)
            /\ verify_sig(e.tx.B, digest(tx), witness.sig_b)
    ELSE TRUE

\* No known transaction spends the same output.
Unspent(ch, tx) == \A e \in ch : e.tx.input # tx.input

\* sendrawtransaction: a transaction already in the mempool is accepted again, one
\* already in a block is refused, a new one is accepted when it spends an existing
\* unspent output with a valid witness.
broadcast_signed_transaction(ch, tx, witness) ==
    IF Known(ch, tx.id)
    THEN [ok |-> Entry(ch, tx.id).conf = 0, chain |-> ch]
    ELSE IF Unspent(ch, tx) /\ InputOk(ch, tx, witness)
         THEN [ok |-> TRUE,
               chain |-> ch \cup {[tx |-> tx, witness |-> witness, conf |-> 0]}]
         ELSE [ok |-> FALSE, chain |-> ch]

\* A lookup that finds only what is still in the mempool.
get_raw_transaction_unconfirmed_only(ch, txid) ==
    IF Known(ch, txid) /\ ~Confirmed(ch, txid)
    THEN [ok |-> TRUE, tx |-> Entry(ch, txid)]
    ELSE [ok |-> FALSE, tx |-> [tx |-> NoTx, witness |-> NoWitness, conf |-> 0]]

\* getrawtransaction: the transaction with its witness, when the node knows it.
get_raw_transaction(ch, txid) ==
    IF Known(ch, txid)
    THEN [ok |-> TRUE, tx |-> Entry(ch, txid)]
    ELSE [ok |-> FALSE, tx |-> [tx |-> NoTx, witness |-> NoWitness, conf |-> 0]]

\* TxRedeem::extract_signature_by_key: the witness signature that verifies under key.
extract_signature_by_key(tx_redeem, candidate, key) ==
    LET sigs == {candidate.witness.sig_a, candidate.witness.sig_b}
        good == {sg \in sigs : verify_sig(key, digest(tx_redeem), sg)}
    IN  IF good # {} THEN [ok |-> TRUE, sig |-> CHOOSE sg \in good : TRUE]
        ELSE [ok |-> FALSE, sig |-> NoSig]

Min(x, y) == IF x <= y THEN x ELSE y

\* A block is mined: every known transaction gains a confirmation.
Mine ==
    /\ \E e \in chain : e.conf < MaxConf
    /\ chain' = {[e EXCEPT !.conf = Min(e.conf + 1, MaxConf)] : e \in chain}
    /\ UNCHANGED <<bob, bobPc, local, lastErr, sent, received, calls, xmrChain, db, cloneVars>>
    /\ UNCHANGED <<xmr_bob, aliceVars, storeVars, callVars, asbVars>>

----------------------------------------------------------------------------
(* The Monero wallet.                                                      *)

\* monero::CheckTransfer::check_transfer: the transfer the proof names exists and
\* pays exactly `amount` to the address of (public_spend_key, public_view_key).
check_transfer(xc, public_spend_key, public_view_key, transfer_proof, amount) ==
    \E t \in xc :
        /\ t.id = transfer_proof.tx
        /\ t.spend = public_spend_key
        /\ t.view = public_view_key
        /\ t.amount = amount

----------------------------------------------------------------------------
(* The swap-state store (swap/src/storage.rs).                             *)

\* serde_cbor::to_vec / from_slice
serialize(t) == [cbor |-> t]
deserialize(bytes) == bytes.cbor

\* sled's None: no value under the key.
NoValue == [absent |-> TRUE]

\* A compare-and-swap that writes only under a key that holds nothing yet.
compare_and_swap_insert_only(d, key, old, new) ==
    IF d[key] = old
    THEN [ok |-> TRUE, db |-> IF old = NoValue THEN [d EXCEPT ![key] = new] ELSE d]
    ELSE [ok |-> FALSE, db |-> d]

\* A compare-and-swap that writes whatever the key holds.
compare_and_swap_unconditional(d, key, old, new) ==
    [ok |-> TRUE, db |-> [d EXCEPT ![key] = new]]

\* A compare-and-swap that removes the value of a key that holds one.
compare_and_swap_removing(d, key, old, new) ==
    IF d[key] = old
    THEN [ok |-> TRUE,
          db |-> [d EXCEPT ![key] = IF old = NoValue THEN new ELSE NoValue]]
    ELSE [ok |-> FALSE, db |-> d]

\* sled::Tree::compare_and_swap
compare_and_swap(d, key, old, new) ==
    IF d[key] = old
    THEN [ok |-> TRUE, db |-> [d EXCEPT ![key] = new]]
    ELSE [ok |-> FALSE, db |-> d]

\* Database::get_latest_state
get_latest_state(d, swap_id) ==
    IF d[swap_id] = NoValue
    THEN [ok |-> FALSE, state |-> NoValue]
    ELSE [ok |-> TRUE, state |-> deserialize(d[swap_id])]

\* storage::Bob::Handshaken(bob::State2)
Handshaken(state2) == [variant |-> "Handshaken", state |-> state2]

\* The values callers store: the variants of storage::Bob.
StoredStates ==
    {[variant |-> v, state |-> "state2"] : v \in {"Handshaken", "BtcLocked"}}

\* The callers of insert_latest_state that may run at the same time.
Writers == {"w1", "w2"}

\* insert_latest_state up to its read: the key and the new value are serialized, the
\* old value is read.  serOk: whether serde serializes the state.
insert_read(d, swap_id, state, serOk, getOk) ==
    IF ~serOk
    THEN [ok |-> FALSE, err |-> "Could not serialize new state value",
          new_value |-> NoValue, old_value |-> NoValue]
    ELSE IF ~getOk
    THEN [ok |-> FALSE, err |-> "sled::Error", new_value |-> NoValue,
          old_value |-> NoValue]
    ELSE [ok |-> TRUE, err |-> "none",
          new_value |-> serialize(state), old_value |-> d[swap_id]]

\* insert_latest_state's compare-and-swap on the tree as it is by then.  casOk:
\* whether sled carries the call out at all.
insert_cas(d, key, old_value, new_value, casOk) ==
    IF ~casOk
    THEN [ok |-> FALSE, err |-> "Could not write in the DB", db |-> d]
    ELSE LET r == compare_and_swap(d, key, old_value, new_value)
         IN  IF ~r.ok
             THEN [ok |-> FALSE, err |-> "Stored swap somehow changed, aborting saving",
                   db |-> r.db]
             ELSE [ok |-> TRUE, err |-> "none", db |-> r.db]

\* A flush whose failure is not reported.
insert_flush_unreported(d, dk, flushOk) ==
    [ok |-> TRUE, err |-> "none", disk |-> IF flushOk THEN d ELSE dk]

\* insert_latest_state's flush: Ok when the tree has reached the disk.
insert_flush(d, dk, flushOk) ==
    IF flushOk THEN [ok |-> TRUE, err |-> "none", disk |-> d]
    ELSE [ok |-> FALSE, err |-> "Could not flush db", disk |-> dk]

\* Database::insert_latest_state from its call to its return.  d is the tree when
\* the old value is read, d_cas the tree when the compare-and-swap runs (other
\* callers may have written in between); db is the tree the call leaves.
insert_latest_state(d, d_cas, swap_id, state, serOk, getOk, casOk, flushOk) ==
    LET r == insert_read(d, swap_id, state, serOk, getOk)
        c == insert_cas(d_cas, swap_id, r.old_value, r.new_value, casOk)
    IN  IF ~r.ok THEN [ok |-> FALSE, err |-> r.err, db |-> d_cas]
        ELSE IF ~c.ok THEN [ok |-> FALSE, err |-> c.err, db |-> c.db]
        ELSE IF ~flushOk THEN [ok |-> FALSE, err |-> "Could not flush db", db |-> c.db]
        ELSE [ok |-> TRUE, err |-> "none", db |-> c.db]

IdleWriter ==
    [pc |-> "idle", key |-> "none", old_value |-> NoValue, new_value |-> NoValue,
     result |-> "none"]

\* A caller enters insert_latest_state and runs it up to the read of the old value.
StoreInsertRead ==
    /\ \E w \in Writers, k \in SwapIds, v \in StoredStates, serOk \in BOOLEAN,
          getOk \in BOOLEAN :
          /\ writers[w].pc \in {"idle", "done"}
          /\ LET r == insert_read(db, k, v, serOk, getOk)
             IN  writers' = [writers EXCEPT ![w] =
                    [pc |-> IF r.ok THEN "read" ELSE "done", key |-> k,
                     old_value |-> r.old_value, new_value |-> r.new_value,
                     result |-> r.err]]
    /\ UNCHANGED <<db, disk, inserted, got, bobVars, aliceVars, callVars, asbVars>>

\* The caller's compare-and-swap.
StoreInsertCas ==
    /\ \E w \in Writers, casOk \in BOOLEAN :
          /\ writers[w].pc = "read"
          /\ LET r == insert_cas(db, writers[w].key, writers[w].old_value,
                                 writers[w].new_value, casOk)
             IN  /\ db' = r.db
                 /\ writers' = [writers EXCEPT ![w] =
                        IF r.ok THEN [@ EXCEPT !.pc = "written", !.old_value = NoValue]
                        ELSE [@ EXCEPT !.pc = "done", !.old_value = NoValue,
                                       !.new_value = NoValue, !.result = r.err]]
    /\ UNCHANGED <<disk, inserted, got, bobVars, aliceVars, callVars, asbVars>>

\* The caller's flush, and the return of insert_latest_state.
StoreInsertFlush ==
    /\ \E w \in Writers, flushOk \in BOOLEAN :
          /\ writers[w].pc = "written"
          /\ LET r == insert_flush(db, disk, flushOk)
             IN  /\ disk' = r.disk
                 /\ writers' = [writers EXCEPT ![w] =
                        [@ EXCEPT !.pc = "done", !.new_value = NoValue,
                                  !.result = IF r.ok THEN "Ok" ELSE r.err]]
                 /\ inserted' = IF r.ok THEN inserted \cup {writers[w].key} ELSE inserted
    /\ UNCHANGED <<db, got, bobVars, aliceVars, callVars, asbVars>>

\* A call of get_latest_state.
StoreGet ==
    /\ \E k \in SwapIds : got' = get_latest_state(db, k)
    /\ UNCHANGED <<db, disk, writers, inserted, bobVars, aliceVars, callVars, asbVars>>

----------------------------------------------------------------------------
(* Bob's states and their methods (xmr-btc/src/bob.rs).  Each state is a    *)
(* record with exactly the fields of its struct.                           *)

\* The state passed to next_state by value is gone when next_state returns Err.
Dropped == [tag |-> "Dropped"]

State0_new(p, refund_timelock, punish_timelock) ==
    [tag |-> "State0", b |-> p.b, s_b |-> p.s_b, v_b |-> p.v_b, btc |-> p.btc,
     xmr |-> p.xmr, refund_timelock |-> refund_timelock,
     punish_timelock |-> punish_timelock, refund_address |-> p.refund_address]

State0_next_message(st) ==
    [type |-> "Message0", B |-> public(st.b), S_b_monero |-> Ed(st.s_b),
     S_b_bitcoin |-> Secp(st.s_b), dleq_proof_s_b |-> dleq_prove(st.s_b),
     v_b |-> st.v_b, refund_address |-> st.refund_address]

\* A State1 whose view key is the share of Alice alone.
State1_from_with_the_view_key_of_alice(st, msg) ==
    [tag |-> "State1", A |-> msg.A, b |-> st.b, s_b |-> st.s_b,
     S_a_monero |-> msg.S_a_monero, S_a_bitcoin |-> msg.S_a_bitcoin,
     v |-> msg.v_a, btc |-> st.btc, xmr |-> st.xmr,
     refund_timelock |-> st.refund_timelock,
     punish_timelock |-> st.punish_timelock,
     refund_address |-> st.refund_address,
     redeem_address |-> msg.redeem_address,
     punish_address |-> msg.punish_address,
     tx_lock |-> TxLock_new(st.btc, msg.A, public(st.b))]

\* The State1 literal State0::receive returns.
State1_from(st, msg) ==
    [tag |-> "State1", A |-> msg.A, b |-> st.b, s_b |-> st.s_b,
     S_a_monero |-> msg.S_a_monero, S_a_bitcoin |-> msg.S_a_bitcoin,
     v |-> msg.v_a + st.v_b, btc |-> st.btc, xmr |-> st.xmr,
     refund_timelock |-> st.refund_timelock,
     punish_timelock |-> st.punish_timelock,
     refund_address |-> st.refund_address,
     redeem_address |-> msg.redeem_address,
     punish_address |-> msg.punish_address,
     tx_lock |-> TxLock_new(st.btc, msg.A, public(st.b))]

\* State0::receive up to its wallet call, without the verification of the
\* cross-curve proof.
State0_receive_verify_without_dleq(st, msg) ==
    IF ~decompress_ok(msg.S_a_monero)
    THEN [ok |-> FALSE, err |-> "S_a is not a monero curve point"]
    ELSE [ok |-> TRUE, err |-> "none"]

\* State0::receive up to its wallet call: S_a_monero is decompressed and the
\* cross-curve proof verified.
State0_receive_verify(st, msg) ==
    IF ~decompress_ok(msg.S_a_monero)
    THEN [ok |-> FALSE, err |-> "S_a is not a monero curve point"]
    ELSE IF ~dleq_verify(msg.dleq_proof_s_a, msg.S_a_bitcoin, msg.S_a_monero)
    THEN [ok |-> FALSE, err |-> "InvalidDleqProof"]
    ELSE [ok |-> TRUE, err |-> "none"]

\* State0::receive from the answer of the wallet on.  walletOk: whether the wallet
\* can build the TxLock PSBT.
State0_receive_build(st, msg, walletOk) ==
    IF ~walletOk
    THEN [ok |-> FALSE, err |-> "BuildTxLockPsbt", state |-> Dropped,
          calls |-> {[op |-> "build_tx_lock_psbt", ok |-> FALSE]}]
    ELSE [ok |-> TRUE, err |-> "none", calls |-> {[op |-> "build_tx_lock_psbt", ok |-> TRUE]},
          state |-> State1_from(st, msg)]

State1_next_message(st) == [type |-> "Message1", tx_lock |-> st.tx_lock]

\* The State2 literal State1::receive returns.
State2_from(st, msg) ==
    [tag |-> "State2",
     A |-> st.A, b |-> st.b, s_b |-> st.s_b,
     S_a_monero |-> st.S_a_monero, S_a_bitcoin |-> st.S_a_bitcoin,
     v |-> st.v, btc |-> st.btc, xmr |-> st.xmr,
     refund_timelock |-> st.refund_timelock,
     punish_timelock |-> st.punish_timelock,
     refund_address |-> st.refund_address,
     redeem_address |-> st.redeem_address,
     punish_address |-> st.punish_address,
     tx_lock |-> st.tx_lock,
     tx_cancel_sig_a |-> msg.tx_cancel_sig,
     tx_refund_encsig |-> msg.tx_refund_encsig]

\* State1::receive without its verify_encsig call.
State1_receive_without_verify_encsig(st, msg) ==
    LET tx_cancel == TxCancel_new(st.tx_lock, st.refund_timelock, st.A, public(st.b))
    IN  IF ~verify_sig(st.A, digest(tx_cancel), msg.tx_cancel_sig)
        THEN [ok |-> FALSE, err |-> "InvalidSignature", state |-> Dropped]
        ELSE [ok |-> TRUE, err |-> "none", state |-> State2_from(st, msg)]

\* State1::receive: Alice's TxCancel signature and her TxRefund encrypted signature
\* are verified before State2 exists.
State1_receive(st, msg) ==
    LET tx_cancel == TxCancel_new(st.tx_lock, st.refund_timelock, st.A, public(st.b))
        tx_refund == TxRefund_new(tx_cancel, st.refund_address)
    IN  IF ~verify_sig(st.A, digest(tx_cancel), msg.tx_cancel_sig)
        THEN [ok |-> FALSE, err |-> "InvalidSignature", state |-> Dropped]
        ELSE IF ~verify_encsig(st.A, Secp(st.s_b), digest(tx_refund), msg.tx_refund_encsig)
        THEN [ok |-> FALSE, err |-> "InvalidEncryptedSignature", state |-> Dropped]
        ELSE [ok |-> TRUE, err |-> "none", state |-> State2_from(st, msg)]

State2_next_message(st) ==
    LET tx_cancel == TxCancel_new(st.tx_lock, st.refund_timelock, st.A, public(st.b))
        tx_punish == TxPunish_new(tx_cancel, st.punish_address, st.punish_timelock)
    IN  [type |-> "Message2", tx_punish_sig |-> sign(st.b, digest(tx_punish)),
         tx_cancel_sig |-> sign(st.b, digest(tx_cancel))]

\* A copy that takes the refund address for the redeem address.
CopyFields_confusing_addresses(tag, st) ==
    [tag |-> tag, A |-> st.A, b |-> st.b, s_b |-> st.s_b,
     S_a_monero |-> st.S_a_monero, S_a_bitcoin |-> st.S_a_bitcoin,
     v |-> st.v, btc |-> st.btc, xmr |-> st.xmr,
     refund_timelock |-> st.refund_timelock,
     punish_timelock |-> st.punish_timelock,
     refund_address |-> st.refund_address,
     redeem_address |-> st.refund_address,
     punish_address |-> st.punish_address,
     tx_lock |-> st.tx_lock,
     tx_cancel_sig_a |-> st.tx_cancel_sig_a,
     tx_refund_encsig |-> st.tx_refund_encsig]

\* The sixteen fields State2, State3 and State4 share, copied field by field.
CopyFields(tag, st) ==
    [tag |-> tag, A |-> st.A, b |-> st.b, s_b |-> st.s_b,
     S_a_monero |-> st.S_a_monero, S_a_bitcoin |-> st.S_a_bitcoin,
     v |-> st.v, btc |-> st.btc, xmr |-> st.xmr,
     refund_timelock |-> st.refund_timelock,
     punish_timelock |-> st.punish_timelock,
     refund_address |-> st.refund_address,
     redeem_address |-> st.redeem_address,
     punish_address |-> st.punish_address,
     tx_lock |-> st.tx_lock,
     tx_cancel_sig_a |-> st.tx_cancel_sig_a,
     tx_refund_encsig |-> st.tx_refund_encsig]

\* State2::lock_btc up to the answer of sign_tx_lock.  signOk: whether the wallet
\* signs TxLock.
State2_lock_btc_sign(st, signOk) ==
    IF ~signOk
    THEN [ok |-> FALSE, err |-> "SignTxLock",
          calls |-> {[op |-> "sign_tx_lock", ok |-> FALSE]}]
    ELSE [ok |-> TRUE, err |-> "none", calls |-> {[op |-> "sign_tx_lock", ok |-> TRUE]}]

\* State2::lock_btc from the broadcast of the signed TxLock on.
\* rpc: whether the wallet's node answers the call at all.
State2_lock_btc_broadcast(st, ch, rpc) ==
    LET r == IF rpc THEN broadcast_signed_transaction(ch, st.tx_lock, NoWitness)
             ELSE [ok |-> FALSE, chain |-> ch]
    IN  IF ~r.ok
        THEN [ok |-> FALSE, err |-> "BroadcastSignedTransaction", state |-> Dropped,
              chain |-> r.chain]
        ELSE [ok |-> TRUE, err |-> "none", state |-> CopyFields("State3", st),
              chain |-> r.chain]

\* State3::watch_for_lock_xmr going on to State4 whatever check_transfer answers.
State3_watch_for_lock_xmr_ignoring_check(st, xc, msg) ==
    LET S_b_monero == Ed(st.s_b)
        S == Ed(st.S_a_monero.k + S_b_monero.k)
    IN  [ok |-> TRUE, err |-> "none", state |-> CopyFields("State4", st),
         calls |-> {[op |-> "check_transfer",
                     ok |-> check_transfer(xc, S, Ed(st.v), msg.tx_lock_proof, st.xmr),
                     spend |-> S, view |-> Ed(st.v), proof |-> msg.tx_lock_proof,
                     amount |-> st.xmr]}]

\* State3::watch_for_lock_xmr: the transfer proof is checked against the joint
\* address and the agreed amount before State4 exists.
State3_watch_for_lock_xmr(st, xc, msg) ==
    LET S_b_monero == Ed(st.s_b)
        S == Ed(st.S_a_monero.k + S_b_monero.k)
    IN  IF ~check_transfer(xc, S, Ed(st.v), msg.tx_lock_proof, st.xmr)
        THEN [ok |-> FALSE, err |-> "CheckTransfer", state |-> Dropped,
              calls |-> {[op |-> "check_transfer", ok |-> FALSE, spend |-> S,
                          view |-> Ed(st.v), proof |-> msg.tx_lock_proof,
                          amount |-> st.xmr]}]
        ELSE [ok |-> TRUE, err |-> "none", state |-> CopyFields("State4", st),
              calls |-> {[op |-> "check_transfer", ok |-> TRUE, spend |-> S,
                          view |-> Ed(st.v), proof |-> msg.tx_lock_proof,
                          amount |-> st.xmr]}]

\* A refund_btc that goes on to TxRefund whatever became of TxCancel.
State3_refund_btc_cancel_regardless(st, ch, signOk, rpc) ==
    LET tx_cancel == TxCancel_new(st.tx_lock, st.refund_timelock, st.A, public(st.b))
        signed_tx_cancel == [sig_a |-> st.tx_cancel_sig_a,
                             sig_b |-> sign(st.b, digest(tx_cancel))]
        r == IF signOk /\ rpc
             THEN broadcast_signed_transaction(ch, tx_cancel, signed_tx_cancel)
             ELSE [ok |-> FALSE, chain |-> ch]
    IN  [ok |-> TRUE, err |-> "none", chain |-> r.chain]

\* State3::refund_btc up to the answer of its first broadcast, that of TxCancel.
\* signOk: whether add_signatures returns the signed transaction; rpc: whether the
\* wallet's node answers the call at all.
State3_refund_btc_cancel(st, ch, signOk, rpc) ==
    LET tx_cancel == TxCancel_new(st.tx_lock, st.refund_timelock, st.A, public(st.b))
        signed_tx_cancel == [sig_a |-> st.tx_cancel_sig_a,
                             sig_b |-> sign(st.b, digest(tx_cancel))]
        r == IF rpc THEN broadcast_signed_transaction(ch, tx_cancel, signed_tx_cancel)
             ELSE [ok |-> FALSE, chain |-> ch]
    IN  IF ~signOk
        THEN [ok |-> FALSE, err |-> "AddSignatures", chain |-> ch]
        ELSE IF ~r.ok
        THEN [ok |-> FALSE, err |-> IF rpc THEN "BroadcastTxCancel" ELSE "RpcUnreachable",
              chain |-> r.chain]
        ELSE [ok |-> TRUE, err |-> "none", chain |-> r.chain]

\* State3::refund_btc from the answer of its first broadcast to its second: TxRefund
\* is signed before the node is called.  signOk: whether add_signatures returns the
\* signed transaction.
State3_refund_btc_sign_refund(st, signOk) ==
    IF ~signOk THEN [ok |-> FALSE, err |-> "AddSignatures"]
    ELSE [ok |-> TRUE, err |-> "none"]

\* State3::refund_btc from the answer of its second broadcast on, that of the signed
\* TxRefund, on the chain as it is by then.
State3_refund_btc_refund(st, ch, rpc) ==
    LET tx_cancel == TxCancel_new(st.tx_lock, st.refund_timelock, st.A, public(st.b))
        tx_refund == TxRefund_new(tx_cancel, st.refund_address)
        signed_tx_refund == [sig_a |-> decrypt_signature(st.s_b, st.tx_refund_encsig),
                             sig_b |-> sign(st.b, digest(tx_refund))]
        r == IF rpc THEN broadcast_signed_transaction(ch, tx_refund, signed_tx_refund)
             ELSE [ok |-> FALSE, chain |-> ch]
    IN  IF ~r.ok
        THEN [ok |-> FALSE, err |-> IF rpc THEN "BroadcastTxRefund" ELSE "RpcUnreachable",
              chain |-> r.chain]
        ELSE [ok |-> TRUE, err |-> "none", chain |-> r.chain]

State4_next_message(st) ==
    LET tx_redeem == TxRedeem_new(st.tx_lock, st.redeem_address)
    IN  [type |-> "Message3",
         tx_redeem_encsig |-> encsign(st.b, st.S_a_bitcoin, digest(tx_redeem))]

\* The State5 literal State4::watch_for_redeem_btc returns.
State5_from(st, s_a) ==
    [tag |-> "State5", A |-> st.A, b |-> st.b, s_a |-> s_a,
     s_b |-> st.s_b, S_a_monero |-> st.S_a_monero,
     S_a_bitcoin |-> st.S_a_bitcoin, v |-> st.v, btc |-> st.btc,
     xmr |-> st.xmr, refund_timelock |-> st.refund_timelock,
     punish_timelock |-> st.punish_timelock,
     refund_address |-> st.refund_address,
     redeem_address |-> st.redeem_address,
     punish_address |-> st.punish_address,
     tx_lock |-> st.tx_lock,
     tx_refund_encsig |-> st.tx_refund_encsig,
     tx_cancel_sig |-> st.tx_cancel_sig_a]

\* State4::watch_for_redeem_btc going on to State5 when the look-up finds nothing.
State4_watch_for_redeem_btc_without_lookup(st, ch) ==
    LET tx_redeem == TxRedeem_new(st.tx_lock, st.redeem_address)
        tx_redeem_encsig == encsign(st.b, st.S_a_bitcoin, digest(tx_redeem))
        tx_redeem_candidate == get_raw_transaction(ch, tx_redeem.id)
        tx_redeem_sig ==
            extract_signature_by_key(tx_redeem, tx_redeem_candidate.tx, public(st.b))
        s_a == recover(st.S_a_bitcoin, tx_redeem_sig.sig, tx_redeem_encsig)
    IN  [ok |-> TRUE, err |-> "none", state |-> State5_from(st, s_a.s)]

\* A watch_for_redeem_btc that recomputes the encrypted signature under Alice's
\* key A instead of S_a.
State4_watch_for_redeem_btc_encsigning_under_A(st, ch) ==
    LET tx_redeem == TxRedeem_new(st.tx_lock, st.redeem_address)
        tx_redeem_encsig == encsign(st.b, st.A, digest(tx_redeem))
        tx_redeem_candidate == get_raw_transaction(ch, tx_redeem.id)
        tx_redeem_sig ==
            extract_signature_by_key(tx_redeem, tx_redeem_candidate.tx, public(st.b))
        s_a == recover(st.S_a_bitcoin, tx_redeem_sig.sig, tx_redeem_encsig)
    IN  IF ~tx_redeem_candidate.ok
        THEN [ok |-> FALSE, err |-> "GetRawTransaction", state |-> Dropped]
        ELSE IF ~tx_redeem_sig.ok
        THEN [ok |-> FALSE, err |-> "ExtractSignature", state |-> Dropped]
        ELSE IF ~s_a.ok
        THEN [ok |-> FALSE, err |-> "Recover", state |-> Dropped]
        ELSE [ok |-> TRUE, err |-> "none", state |-> State5_from(st, s_a.s)]

\* State4::watch_for_redeem_btc: one look-up of TxRedeem, the signature under B in
\* its witness, and s_a recovered from it and Bob's own encrypted signature.
State4_watch_for_redeem_btc(st, ch) ==
    LET tx_redeem == TxRedeem_new(st.tx_lock, st.redeem_address)
        tx_redeem_encsig == encsign(st.b, st.S_a_bitcoin, digest(tx_redeem))
        tx_redeem_candidate == get_raw_transaction(ch, tx_redeem.id)
        tx_redeem_sig ==
            extract_signature_by_key(tx_redeem, tx_redeem_candidate.tx, public(st.b))
        s_a == recover(st.S_a_bitcoin, tx_redeem_sig.sig, tx_redeem_encsig)
    IN  IF ~tx_redeem_candidate.ok
        THEN [ok |-> FALSE, err |-> "GetRawTransaction", state |-> Dropped]
        ELSE IF ~tx_redeem_sig.ok
        THEN [ok |-> FALSE, err |-> "ExtractSignature", state |-> Dropped]
        ELSE IF ~s_a.ok
        THEN [ok |-> FALSE, err |-> "Recover", state |-> Dropped]
        ELSE [ok |-> TRUE, err |-> "none", state |-> State5_from(st, s_a.s)]

\* A claim with Bob's own half of the spend key.
State5_claim_xmr_with_own_key_only(st, importOk) ==
    LET s == st.s_b
    IN  [ok |-> importOk, err |-> IF importOk THEN "none" ELSE "ImportOutput",
         calls |-> {[op |-> "import_output", ok |-> importOk,
                     spend_key |-> s, view_key |-> st.v]}]

\* State5::claim_xmr.  importOk: whether the Monero wallet imports the output.
State5_claim_xmr(st, importOk) ==
    LET s == st.s_a + st.s_b
    IN  [ok |-> importOk, err |-> IF importOk THEN "none" ELSE "ImportOutput",
         calls |-> {[op |-> "import_output", ok |-> importOk,
                     spend_key |-> s, view_key |-> st.v]}]

----------------------------------------------------------------------------
(* What Alice may send.  She holds her own keys and what Bob has sent her;  *)
(* she need not be honest, so every candidate below may arrive, in any     *)
(* order.                                                                  *)

AliceMessage0s ==
    {[type |-> "Message0", A |-> Secp(AliceKeys.a), S_a_monero |-> P,
      S_a_bitcoin |-> Secp(AliceKeys.s_a), dleq_proof_s_a |-> dleq_prove(AliceKeys.s_a),
      v_a |-> AliceKeys.v_a, redeem_address |-> AliceKeys.redeem_address,
      punish_address |-> AliceKeys.punish_address] :
        P \in {Ed(AliceKeys.s_a), Ed(0), Ed(AliceKeys.other)}}

AliceMessage1s(tx_lock, refund_timelock, B, S_b_bitcoin, refund_address) ==
    LET tx_cancel == TxCancel_new(tx_lock, refund_timelock, Secp(AliceKeys.a), B)
        tx_refund == TxRefund_new(tx_cancel, refund_address)
    IN  {[type |-> "Message1", tx_cancel_sig |-> sg, tx_refund_encsig |-> es] :
            sg \in {sign(AliceKeys.a, digest(tx_cancel)),
                    sign(AliceKeys.other, digest(tx_cancel))},
            es \in {encsign(AliceKeys.a, S_b_bitcoin, digest(tx_refund)),
                    encsign(AliceKeys.a, Secp(AliceKeys.s_a), digest(tx_refund))}}

AliceMessage2s(xc) ==
    {[type |-> "Message2", tx_lock_proof |-> [tx |-> i]] :
        i \in {t.id : t \in xc} \cup {0}}

\* A message of another variant than the expected one.
OtherVariants(expected) ==
    {m \in AliceMessage0s
           \cup {[type |-> "Message1", tx_cancel_sig |-> NoSig,
                  tx_refund_encsig |-> NoEncSig]}
           \cup AliceMessage2s({}) :
        m.type # expected}

Faults == {"none", "send", "receive", "wallet"}

----------------------------------------------------------------------------
(* next_state, one arm per state, one definition per stretch of an arm      *)
(* between two awaits.  While the future of next_state is suspended it owns *)
(* the state it was given: bob stays that state and bobPc names the await   *)
(* the future is suspended in; local holds what the arm has bound so far.   *)
(* `fault` names the await that fails: the transport's send, its receive,   *)
(* or the wallet call.                                                     *)

\* What an arm has bound: the message it received or is about to send, and the
\* state the method it awaited has returned.
NoMessage == [type |-> "none"]
NoState == [tag |-> "none"]
NoLocal == [msg |-> NoMessage, state |-> NoState]

\* State0 arm up to the answer of send_message.
next_state_State0_send(st, fault) ==
    IF fault = "send"
    THEN [pc |-> "idle", state |-> Dropped, err |-> "SendMessage", sent |-> {}]
    ELSE [pc |-> "receive_message", state |-> st, err |-> "none",
          sent |-> {State0_next_message(st)}]

\* State0 arm from the answer of receive_message up to the wallet call of
\* State0::receive.
next_state_State0_receive(st, msg, fault) ==
    IF fault = "receive"
    THEN [pc |-> "idle", state |-> Dropped, local |-> NoLocal, err |-> "ReceiveMessage",
          received |-> {}]
    ELSE IF msg.type # "Message0"
    THEN [pc |-> "idle", state |-> Dropped, local |-> NoLocal,
          err |-> "UnexpectedMessage", received |-> {msg}]
    ELSE LET r == State0_receive_verify(st, msg)
         IN  IF ~r.ok
             THEN [pc |-> "idle", state |-> Dropped, local |-> NoLocal, err |-> r.err,
                   received |-> {msg}]
             ELSE [pc |-> "build_tx_lock_psbt", state |-> st,
                   local |-> [msg |-> msg, state |-> NoState], err |-> "none",
                   received |-> {msg}]

\* State0 arm from the answer of the wallet to its return.
next_state_State0_build(st, lc, fault) ==
    LET r == State0_receive_build(st, lc.msg, fault # "wallet")
    IN  [pc |-> "idle", state |-> r.state, err |-> r.err, calls |-> r.calls]

\* State1 arm up to the answer of send_message.
next_state_State1_send(st, fault) ==
    IF fault = "send"
    THEN [pc |-> "idle", state |-> Dropped, err |-> "SendMessage", sent |-> {}]
    ELSE [pc |-> "receive_message", state |-> st, err |-> "none",
          sent |-> {State1_next_message(st)}]

\* A State1 arm that hands back a State3, as if TxLock had been published.
next_state_State1_receive_skipping_State2(st, msg, fault) ==
    IF fault = "receive"
    THEN [pc |-> "idle", state |-> Dropped, err |-> "ReceiveMessage", received |-> {}]
    ELSE IF msg.type # "Message1"
    THEN [pc |-> "idle", state |-> Dropped, err |-> "UnexpectedMessage",
          received |-> {msg}]
    ELSE LET r == State1_receive(st, msg)
         IN  [pc |-> "idle",
              state |-> IF r.ok THEN CopyFields("State3", r.state) ELSE r.state,
              err |-> r.err, received |-> {msg}]

\* State1 arm from the answer of receive_message to its return.
next_state_State1_receive(st, msg, fault) ==
    IF fault = "receive"
    THEN [pc |-> "idle", state |-> Dropped, err |-> "ReceiveMessage", received |-> {}]
    ELSE IF msg.type # "Message1"
    THEN [pc |-> "idle", state |-> Dropped, err |-> "UnexpectedMessage",
          received |-> {msg}]
    ELSE LET r == State1_receive(st, msg)
         IN  [pc |-> "idle", state |-> r.state, err |-> r.err, received |-> {msg}]

\* A State2 arm that sends Message2 as soon as TxLock is signed.
next_state_State2_sign_sending_first(st, fault) ==
    LET message2 == State2_next_message(st)
        r == State2_lock_btc_sign(st, fault # "wallet")
    IN  IF ~r.ok
        THEN [pc |-> "idle", state |-> Dropped, local |-> NoLocal, err |-> r.err,
              calls |-> r.calls, sent |-> {}]
        ELSE [pc |-> "broadcast_signed_transaction", state |-> st,
              local |-> [msg |-> message2, state |-> NoState], err |-> "none",
              calls |-> r.calls, sent |-> {message2}]

\* State2 arm up to the answer of sign_tx_lock: Message2 is made, TxLock signed.
next_state_State2_sign(st, fault) ==
    LET message2 == State2_next_message(st)
        r == State2_lock_btc_sign(st, fault # "wallet")
    IN  IF ~r.ok
        THEN [pc |-> "idle", state |-> Dropped, local |-> NoLocal, err |-> r.err,
              calls |-> r.calls, sent |-> {}]
        ELSE [pc |-> "broadcast_signed_transaction", state |-> st,
              local |-> [msg |-> message2, state |-> NoState], err |-> "none",
              calls |-> r.calls, sent |-> {}]

\* State2 arm from the answer of the broadcast of TxLock up to send_message.
next_state_State2_broadcast(st, lc, ch, rpc) ==
    LET r == State2_lock_btc_broadcast(st, ch, rpc)
    IN  IF ~r.ok
        THEN [pc |-> "idle", state |-> Dropped, local |-> NoLocal, err |-> r.err,
              chain |-> r.chain]
        ELSE [pc |-> "send_message", state |-> st,
              local |-> [msg |-> lc.msg, state |-> r.state], err |-> "none",
              chain |-> r.chain]

\* State2 arm from the answer of send_message to its return.
next_state_State2_send(st, lc, fault) ==
    IF fault = "send"
    THEN [pc |-> "idle", state |-> Dropped, err |-> "SendMessage", sent |-> {}]
    ELSE [pc |-> "idle", state |-> lc.state, err |-> "none", sent |-> {lc.msg}]

\* State3 arm up to the wallet call of State3::watch_for_lock_xmr.
next_state_State3_receive(st, msg, fault) ==
    IF fault = "receive"
    THEN [pc |-> "idle", state |-> Dropped, local |-> NoLocal, err |-> "ReceiveMessage",
          received |-> {}]
    ELSE IF msg.type # "Message2"
    THEN [pc |-> "idle", state |-> Dropped, local |-> NoLocal,
          err |-> "UnexpectedMessage", received |-> {msg}]
    ELSE [pc |-> "check_transfer", state |-> st,
          local |-> [msg |-> msg, state |-> NoState], err |-> "none",
          received |-> {msg}]

\* State3 arm from the answer of check_transfer to its return.
next_state_State3_check(st, lc, xc) ==
    LET r == State3_watch_for_lock_xmr(st, xc, lc.msg)
    IN  [pc |-> "idle", state |-> r.state, err |-> r.err, calls |-> r.calls]

\* State4 arm up to its delay: Message3 is sent.
next_state_State4_send(st, fault) ==
    IF fault = "send"
    THEN [pc |-> "idle", state |-> Dropped, err |-> "SendMessage", sent |-> {}]
    ELSE [pc |-> "delay_for", state |-> st, err |-> "none",
          sent |-> {State4_next_message(st)}]

\* State4 arm after the delay, from the answer of get_raw_transaction up to the
\* wallet call of State5::claim_xmr.
next_state_State4_watch(st, ch) ==
    LET r == State4_watch_for_redeem_btc(st, ch)
    IN  IF ~r.ok
        THEN [pc |-> "idle", state |-> Dropped, local |-> NoLocal, err |-> r.err]
        ELSE [pc |-> "import_output", state |-> st,
              local |-> [msg |-> NoMessage, state |-> r.state], err |-> "none"]

\* State4 arm from the answer of import_output to its return.
next_state_State4_claim(st, lc, fault) ==
    LET c == State5_claim_xmr(lc.state, fault # "wallet")
    IN  [pc |-> "idle", state |-> IF c.ok THEN lc.state ELSE Dropped, err |-> c.err,
         calls |-> c.calls]

NextState0Send ==
    /\ bob.tag = "State0" /\ bobPc = "idle"
    /\ \E fault \in {"none", "send"} :
          LET r == next_state_State0_send(bob, fault)
          IN  /\ bob' = r.state /\ bobPc' = r.pc /\ lastErr' = r.err
              /\ sent' = sent \cup r.sent
    /\ UNCHANGED <<local, received, calls, chain, xmrChain, db, cloneVars>>
    /\ UNCHANGED <<xmr_bob, aliceVars, storeVars, callVars, asbVars>>

NextState0Receive ==
    /\ bob.tag = "State0" /\ bobPc = "receive_message"
    /\ \E fault \in {"none", "receive"},
          msg \in AliceMessage0s \cup OtherVariants("Message0") :
          LET r == next_state_State0_receive(bob, msg, fault)
          IN  /\ bob' = r.state /\ bobPc' = r.pc /\ lastErr' = r.err
              /\ local' = r.local
              /\ received' = received \cup r.received
    /\ UNCHANGED <<sent, calls, chain, xmrChain, db, cloneVars>>
    /\ UNCHANGED <<xmr_bob, aliceVars, storeVars, callVars, asbVars>>

NextState0Build ==
    /\ bob.tag = "State0" /\ bobPc = "build_tx_lock_psbt"
    /\ \E fault \in {"none", "wallet"} :
          LET r == next_state_State0_build(bob, local, fault)
          IN  /\ bob' = r.state /\ bobPc' = r.pc /\ lastErr' = r.err
              /\ calls' = calls \cup r.calls
    /\ local' = NoLocal
    /\ UNCHANGED <<sent, received, chain, xmrChain, db, cloneVars>>
    /\ UNCHANGED <<xmr_bob, aliceVars, storeVars, callVars, asbVars>>

NextState1Send ==
    /\ bob.tag = "State1" /\ bobPc = "idle"
    /\ \E fault \in {"none", "send"} :
          LET r == next_state_State1_send(bob, fault)
          IN  /\ bob' = r.state /\ bobPc' = r.pc /\ lastErr' = r.err
              /\ sent' = sent \cup r.sent
    /\ UNCHANGED <<local, received, calls, chain, xmrChain, db, cloneVars>>
    /\ UNCHANGED <<xmr_bob, aliceVars, storeVars, callVars, asbVars>>

NextState1Receive ==
    /\ bob.tag = "State1" /\ bobPc = "receive_message"
    /\ \E fault \in {"none", "receive"},
          msg \in AliceMessage1s(bob.tx_lock, bob.refund_timelock, public(bob.b),
                                 Secp(bob.s_b), bob.refund_address)
                  \cup OtherVariants("Message1") :
          LET r == next_state_State1_receive(bob, msg, fault)
          IN  /\ bob' = r.state /\ bobPc' = r.pc /\ lastErr' = r.err
              /\ received' = received \cup r.received
    /\ UNCHANGED <<local, sent, calls, chain, xmrChain, db, cloneVars>>
    /\ UNCHANGED <<xmr_bob, aliceVars, storeVars, callVars, asbVars>>

NextState2Sign ==
    /\ bob.tag = "State2" /\ bobPc = "idle"
    /\ \E fault \in {"none", "wallet"} :
          LET r == next_state_State2_sign(bob, fault)
          IN  /\ bob' = r.state /\ bobPc' = r.pc /\ lastErr' = r.err
              /\ local' = r.local
              /\ calls' = calls \cup r.calls
              /\ sent' = sent \cup r.sent
    /\ UNCHANGED <<received, chain, xmrChain, db, cloneVars>>
    /\ UNCHANGED <<xmr_bob, aliceVars, storeVars, callVars, asbVars>>

NextState2Broadcast ==
    /\ bob.tag = "State2" /\ bobPc = "broadcast_signed_transaction"
    /\ \E rpc \in BOOLEAN :
          LET r == next_state_State2_broadcast(bob, local, chain, rpc)
          IN  /\ bob' = r.state /\ bobPc' = r.pc /\ lastErr' = r.err
              /\ local' = r.local
              /\ chain' = r.chain
    /\ UNCHANGED <<sent, received, calls, xmrChain, db, cloneVars>>
    /\ UNCHANGED <<xmr_bob, aliceVars, storeVars, callVars, asbVars>>

NextState2Send ==
    /\ bob.tag = "State2" /\ bobPc = "send_message"
    /\ \E fault \in {"none", "send"} :
          LET r == next_state_State2_send(bob, local, fault)
          IN  /\ bob' = r.state /\ bobPc' = r.pc /\ lastErr' = r.err
              /\ sent' = sent \cup r.sent
    /\ local' = NoLocal
    /\ UNCHANGED <<received, calls, chain, xmrChain, db, cloneVars>>
    /\ UNCHANGED <<xmr_bob, aliceVars, storeVars, callVars, asbVars>>

NextState3Receive ==
    /\ bob.tag = "State3" /\ bobPc = "idle"
    /\ \E fault \in {"none", "receive"},
          msg \in AliceMessage2s(xmrChain) \cup OtherVariants("Message2") :
          LET r == next_state_State3_receive(bob, msg, fault)
          IN  /\ bob' = r.state /\ bobPc' = r.pc /\ lastErr' = r.err
              /\ local' = r.local
              /\ received' = received \cup r.received
    /\ UNCHANGED <<sent, calls, chain, xmrChain, db, cloneVars>>
    /\ UNCHANGED <<xmr_bob, aliceVars, storeVars, callVars, asbVars>>

NextState3Check ==
    /\ bob.tag = "State3" /\ bobPc = "check_transfer"
    /\ LET r == next_state_State3_check(bob, local, xmrChain)
       IN  /\ bob' = r.state /\ bobPc' = r.pc /\ lastErr' = r.err
           /\ calls' = calls \cup r.calls
    /\ local' = NoLocal
    /\ UNCHANGED <<sent, received, chain, xmrChain, db, cloneVars>>
    /\ UNCHANGED <<xmr_bob, aliceVars, storeVars, callVars, asbVars>>

NextState4Send ==
    /\ bob.tag = "State4" /\ bobPc = "idle"
    /\ \E fault \in {"none", "send"} :
          LET r == next_state_State4_send(bob, fault)
          IN  /\ bob' = r.state /\ bobPc' = r.pc /\ lastErr' = r.err
              /\ sent' = sent \cup r.sent
    /\ UNCHANGED <<local, received, calls, chain, xmrChain, db, cloneVars>>
    /\ UNCHANGED <<xmr_bob, aliceVars, storeVars, callVars, asbVars>>

\* What a set of Monero transfers adds up to.
RECURSIVE SumOfTransfers(_)
SumOfTransfers(ts) ==
    IF ts = {} THEN 0
    ELSE LET t == CHOOSE x \in ts : TRUE
         IN  t.amount + SumOfTransfers(ts \ {t})

\* monero::ImportOutput: the wallet made of a spend key and a view key holds the
\* transfers made to their address.
import_output(xc, private_spend_key, private_view_key) ==
    SumOfTransfers({t \in xc : /\ t.spend = Ed(private_spend_key)
                               /\ t.view = Ed(private_view_key)})

\* What the successful import_output calls among cs bring into the wallet.
RECURSIVE Imported(_, _)
Imported(xc, cs) ==
    LET imports == {c \in cs : c.op = "import_output" /\ c.ok}
    IN  IF imports = {} THEN 0
        ELSE LET c == CHOOSE x \in imports : TRUE
             IN  import_output(xc, c.spend_key, c.view_key) + Imported(xc, cs \ {c})

NextState4Watch ==
    /\ bob.tag = "State4" /\ bobPc = "delay_for"
    /\ LET r == next_state_State4_watch(bob, chain)
       IN  /\ bob' = r.state /\ bobPc' = r.pc /\ lastErr' = r.err
           /\ local' = r.local
    /\ UNCHANGED <<sent, received, calls, chain, xmrChain, db, cloneVars>>
    /\ UNCHANGED <<xmr_bob, aliceVars, storeVars, callVars, asbVars>>

NextState4Claim ==
    /\ bob.tag = "State4" /\ bobPc = "import_output"
    /\ \E fault \in {"none", "wallet"} :
          LET r == next_state_State4_claim(bob, local, fault)
          IN  /\ bob' = r.state /\ bobPc' = r.pc /\ lastErr' = r.err
              /\ calls' = calls \cup r.calls
              /\ xmr_bob' = xmr_bob + Imported(xmrChain, r.calls)
    /\ local' = NoLocal
    /\ UNCHANGED <<sent, received, chain, xmrChain, db, cloneVars>>
    /\ UNCHANGED <<aliceVars, storeVars, callVars, asbVars>>

NextState5 ==
    /\ bob.tag = "State5" /\ bobPc = "idle"
    /\ lastErr' = "none"
    /\ UNCHANGED <<bob, bobPc, local, sent, received, calls, chain, xmrChain, db, cloneVars>>
    /\ UNCHANGED <<xmr_bob, aliceVars, storeVars, callVars, asbVars>>

\* State2 and State3 derive Clone: the caller keeps a copy of the state it holds.
CloneState ==
    /\ bob.tag \in {"State2", "State3"} /\ bobPc = "idle" /\ refundPc = "idle"
    /\ kept # bob
    /\ kept' = bob
    /\ UNCHANGED <<bob, bobPc, refundPc, local, lastErr, sent, received, calls, chain>>
    /\ UNCHANGED <<xmrChain, db, xmr_bob, aliceVars, storeVars, callVars, asbVars>>

\* refund_btc is a method of State3 only (impl State3) and borrows the state.
refund_btc_available(st) == st.tag = "State3"

\* The State3 the caller can call refund_btc on: the state itself while no
\* next_state owns it, else the clone.
Held == IF refund_btc_available(bob) /\ bobPc = "idle" THEN bob ELSE kept

\* The caller calls refund_btc on the State3 it holds.  It runs until it is
\* suspended in its second broadcast: TxCancel is signed and its broadcast answered,
\* then TxRefund is signed; or it returns the first error on the way.  The value the
\* call borrows stays with the caller.
RefundBtcCancelCall(signOk, rpc, signRefundOk) ==
    /\ refund_btc_available(Held) /\ refundPc = "idle"
    /\ LET r == State3_refund_btc_cancel(Held, chain, signOk, rpc)
           s == State3_refund_btc_sign_refund(Held, signRefundOk)
       IN  /\ chain' = r.chain
           /\ lastErr' = IF r.ok THEN s.err ELSE r.err
           /\ refundPc' = IF r.ok /\ s.ok THEN "broadcast_tx_refund" ELSE "idle"
    /\ kept' = Held
    /\ UNCHANGED <<bob, bobPc, local, sent, received, calls, xmrChain, db>>
    /\ UNCHANGED <<xmr_bob, aliceVars, storeVars, callVars, asbVars>>

RefundBtcCancel ==
    \E signOk \in BOOLEAN, rpc \in BOOLEAN, signRefundOk \in BOOLEAN :
        RefundBtcCancelCall(signOk, rpc, signRefundOk)

\* refund_btc from the answer of its second broadcast to its return.
RefundBtcRefundCall(rpc) ==
    /\ refund_btc_available(kept) /\ refundPc = "broadcast_tx_refund"
    /\ LET r == State3_refund_btc_refund(kept, chain, rpc)
       IN  chain' = r.chain /\ lastErr' = r.err
    /\ refundPc' = "idle"
    /\ UNCHANGED <<bob, bobPc, kept, local, sent, received, calls, xmrChain, db>>
    /\ UNCHANGED <<xmr_bob, aliceVars, storeVars, callVars, asbVars>>

RefundBtcRefund == \E rpc \in BOOLEAN : RefundBtcRefundCall(rpc)

----------------------------------------------------------------------------
(* Alice's moves on the two chains.  She can sign with her own keys and use *)
(* the signatures Bob has sent her, nothing else.                          *)

\* Alice transfers Monero: to the joint address or to one of her own, the agreed
\* amount or less.
AliceLockXmr ==
    /\ Cardinality(xmrChain) < MaxXmrTransfers
    /\ \E m0 \in sent :
          /\ m0.type = "Message0"
          /\ \E spend \in {Ed(AliceKeys.s_a + m0.S_b_monero.k), Ed(AliceKeys.s_a)},
                amount \in {BobParams.xmr, BobParams.xmr - 1} :
                xmrChain' = xmrChain \cup
                    {[id |-> Cardinality(xmrChain) + 1, spend |-> spend,
                      view |-> Ed(AliceKeys.v_a + m0.v_b), amount |-> amount]}
    /\ UNCHANGED <<bob, bobPc, local, lastErr, sent, received, calls, chain, db, cloneVars>>
    /\ UNCHANGED <<xmr_bob, aliceVars, storeVars, callVars, asbVars>>

\* Alice decrypts Bob's redeem encrypted signature with s_a and publishes TxRedeem.
AliceRedeem ==
    /\ \E m1 \in sent, m3 \in sent :
          /\ m1.type = "Message1" /\ m3.type = "Message3"
          /\ LET tx_redeem == TxRedeem_new(m1.tx_lock, AliceKeys.redeem_address)
                 witness ==
                    [sig_a |-> sign(AliceKeys.a, digest(tx_redeem)),
                     sig_b |-> decrypt_signature(AliceKeys.s_a, m3.tx_redeem_encsig)]
                 r == broadcast_signed_transaction(chain, tx_redeem, witness)
             IN  r.ok /\ r.chain # chain /\ chain' = r.chain
    /\ UNCHANGED <<bob, bobPc, local, lastErr, sent, received, calls, xmrChain, db, cloneVars>>
    /\ UNCHANGED <<xmr_bob, aliceVars, storeVars, callVars, asbVars>>

\* Alice publishes TxCancel with her signature and Bob's from his Message2.
AliceCancel ==
    /\ \E m1 \in sent, m2 \in sent :
          /\ m1.type = "Message1" /\ m2.type = "Message2"
          /\ LET tx_cancel == TxCancel_new(m1.tx_lock, RefundTimelock,
                                           Secp(AliceKeys.a), m1.tx_lock.B)
                 witness == [sig_a |-> sign(AliceKeys.a, digest(tx_cancel)),
                             sig_b |-> m2.tx_cancel_sig]
                 r == broadcast_signed_transaction(chain, tx_cancel, witness)
             IN  r.ok /\ r.chain # chain /\ chain' = r.chain
    /\ UNCHANGED <<bob, bobPc, local, lastErr, sent, received, calls, xmrChain, db, cloneVars>>
    /\ UNCHANGED <<xmr_bob, aliceVars, storeVars, callVars, asbVars>>

\* Alice publishes TxPunish with her signature and Bob's from his Message2.
AlicePunish ==
    /\ \E m1 \in sent, m2 \in sent :
          /\ m1.type = "Message1" /\ m2.type = "Message2"
          /\ LET tx_cancel == TxCancel_new(m1.tx_lock, RefundTimelock,
                                           Secp(AliceKeys.a), m1.tx_lock.B)
                 tx_punish == TxPunish_new(tx_cancel, AliceKeys.punish_address,
                                           PunishTimelock)
                 witness == [sig_a |-> sign(AliceKeys.a, digest(tx_punish)),
                             sig_b |-> m2.tx_punish_sig]
                 r == broadcast_signed_transaction(chain, tx_punish, witness)
             IN  r.ok /\ r.chain # chain /\ chain' = r.chain
    /\ UNCHANGED <<bob, bobPc, local, lastErr, sent, received, calls, xmrChain, db, cloneVars>>
    /\ UNCHANGED <<xmr_bob, aliceVars, storeVars, callVars, asbVars>>

----------------------------------------------------------------------------
(* Alice's swap() (swap/src/alice.rs): the handshake she runs on the events  *)
(* of her swarm, which Bob's requests cause.                                *)

\* How many swarm events swap() takes at most.
MaxEvents == 5

\* The amounts Bob may ask for, in satoshi.
BtcRequests == {1, 2}

XMR_PER_BTC == 100

\* A u64 is its four 16-bit limbs, the least significant first.
Limb == 2^16
Amount_from_sat(n) == <<n % Limb, (n \div Limb) % Limb, 0, 0>>

\* The product of a u64 and a small factor: its low 64 bits and what is carried out
\* of them.
mul_limbs(x, k) ==
    LET p1 == x[1] * k
        p2 == x[2] * k + (p1 \div Limb)
        p3 == x[3] * k + (p2 \div Limb)
        p4 == x[4] * k + (p3 \div Limb)
    IN  [value |-> <<p1 % Limb, p2 % Limb, p3 % Limb, p4 % Limb>>,
         carry |-> p4 \div Limb]

\* u64 `*`: on overflow a build with overflow checks panics, a build without them
\* keeps the low 64 bits.
u64_mul(x, k, overflow_checks) ==
    LET m == mul_limbs(x, k)
    IN  [panicked |-> overflow_checks /\ m.carry # 0, value |-> m.value]

\* calculate_amounts: picos = (btc.as_sat() * 10000) * XMR_PER_BTC
calculate_amounts(btc, overflow_checks) ==
    LET sat == u64_mul(btc, 10000, overflow_checks)
        picos == u64_mul(sat.value, XMR_PER_BTC, overflow_checks)
    IN  [panicked |-> sat.panicked \/ picos.panicked, btc |-> btc, xmr |-> picos.value]

\* Option<SwapAmounts>::None
NoAmounts == [btc |-> <<>>, xmr |-> <<>>]

\* xmr_btc::alice::State0::new
alice_State0_new(btc, xmr, refund_timelock, punish_timelock, redeem_address, punish_address) ==
    [tag |-> "State0", a |-> AliceKeys.a, s_a |-> AliceKeys.s_a, v_a |-> AliceKeys.v_a,
     btc |-> btc, xmr |-> xmr, refund_timelock |-> refund_timelock,
     punish_timelock |-> punish_timelock, redeem_address |-> redeem_address,
     punish_address |-> punish_address]

\* xmr_btc::alice::State0::receive: Bob's cross-curve proof is verified.
alice_State0_receive(st, msg) ==
    IF ~(decompress_ok(msg.S_b_monero)
         /\ dleq_verify(msg.dleq_proof_s_b, msg.S_b_bitcoin, msg.S_b_monero))
    THEN [ok |-> FALSE, state |-> st]
    ELSE [ok |-> TRUE,
          state |-> [tag |-> "State1", a |-> st.a, s_a |-> st.s_a, v_a |-> st.v_a,
                     btc |-> st.btc, xmr |-> st.xmr,
                     refund_timelock |-> st.refund_timelock,
                     punish_timelock |-> st.punish_timelock,
                     redeem_address |-> st.redeem_address,
                     punish_address |-> st.punish_address,
                     B |-> msg.B, S_b_monero |-> msg.S_b_monero,
                     S_b_bitcoin |-> msg.S_b_bitcoin, v |-> st.v_a + msg.v_b,
                     refund_address |-> msg.refund_address,
                     tx_lock |-> NoTx]]

\* xmr_btc::alice::State1::receive: it cannot fail; Bob's TxLock is taken as it is.
alice_State1_receive(st, msg) == [st EXCEPT !.tag = "State2", !.tx_lock = msg.tx_lock]

\* xmr_btc::alice::State2::next_message: Alice's signature on TxCancel and her
\* encrypted signature on TxRefund.
alice_State2_next_message(st) ==
    LET tx_cancel == TxCancel_new(st.tx_lock, st.refund_timelock, public(st.a), st.B)
        tx_refund == TxRefund_new(tx_cancel, st.refund_address)
    IN  [type |-> "Message1", tx_cancel_sig |-> sign(st.a, digest(tx_cancel)),
         tx_refund_encsig |-> encsign(st.a, st.S_b_bitcoin, digest(tx_refund))]

\* xmr_btc::alice::State2::receive: Bob's signatures on TxCancel and TxPunish are
\* verified under B.
alice_State2_receive(st, msg) ==
    LET tx_cancel == TxCancel_new(st.tx_lock, st.refund_timelock, public(st.a), st.B)
        tx_punish == TxPunish_new(tx_cancel, st.punish_address, st.punish_timelock)
    IN  IF /\ verify_sig(st.B, digest(tx_cancel), msg.tx_cancel_sig)
           /\ verify_sig(st.B, digest(tx_punish), msg.tx_punish_sig)
        THEN [ok |-> TRUE, state |-> [st EXCEPT !.tag = "State3"]]
        ELSE [ok |-> FALSE, state |-> st]

\* Before State0::new swap() holds no state.
NoAliceState == [tag |-> "none"]

\* What Bob can make Alice's swarm emit, at any time and in any order: a
\* connection, a request for amounts, and his three handshake messages, each well
\* formed or not, for either amount.
BobMessage0s ==
    LET m == State0_next_message(State0_new(BobParams, RefundTimelock, PunishTimelock))
    IN  {m, [m EXCEPT !.dleq_proof_s_b = NoProof]}

BobMessage1s ==
    {State1_next_message(
        [tx_lock |-> TxLock_new(btc, Secp(AliceKeys.a), Secp(BobParams.b))]) :
            btc \in BtcRequests}

BobMessage2s ==
    {State2_next_message(
        [tx_lock |-> m.tx_lock, refund_timelock |-> RefundTimelock,
         A |-> Secp(AliceKeys.a), b |-> k, punish_address |-> AliceKeys.punish_address,
         punish_timelock |-> PunishTimelock]) :
            m \in BobMessage1s, k \in {BobParams.b, AliceKeys.other}}

\* The events of the swarm; a request for amounts and a Message1 come with the
\* response channel of Bob's request.
OutEvents(channel) ==
    {[type |-> "ConnectionEstablished"]}
        \cup {[type |-> "Request", btc |-> btc, channel |-> channel] : btc \in BtcRequests}
        \cup {[type |-> "Message0", msg |-> m] : m \in BobMessage0s}
        \cup {[type |-> "Message1", msg |-> m, channel |-> channel] : m \in BobMessage1s}
        \cup {[type |-> "Message2", msg |-> m] : m \in BobMessage2s}

\* The response channels among a set of events.
ChannelsOf(evs) == {ev.channel : ev \in {e \in evs : e.type \in {"Request", "Message1"}}}

\* A send_amounts that also answers on the channel it was given once more.
send_amounts_twice(channel, amounts) ==
    {[channel |-> channel, msg |-> [type |-> "Amounts", amounts |-> amounts]],
     [channel |-> channel, msg |-> [type |-> "Amounts", amounts |-> NoAmounts]]}

\* Alice::send_amounts: AliceToBob::Amounts on the channel of the request.
send_amounts(channel, amounts) ==
    {[channel |-> channel, msg |-> [type |-> "Amounts", amounts |-> amounts]]}

\* Alice::send_message1: Alice's Message1 on the channel of Bob's Message1.
send_message1(channel, msg) == {[channel |-> channel, msg |-> msg]}

\* A loop that leaves on Message0 whether or not amounts were requested, and finds
\* no amounts where it expects them.
swap_loop_unreachable_reached(ev, la) ==
    IF ev.type = "ConnectionEstablished"
    THEN [pc |-> "loop", last_amounts |-> la, state |-> NoAliceState, sent |-> {}]
    ELSE IF ev.type = "Request"
    THEN LET r == calculate_amounts(Amount_from_sat(ev.btc), TRUE)
             amounts == [btc |-> r.btc, xmr |-> r.xmr]
         IN  [pc |-> IF r.panicked THEN "panicked" ELSE "loop",
              last_amounts |-> amounts, state |-> NoAliceState,
              sent |-> send_amounts(ev.channel, amounts)]
    ELSE IF ev.type = "Message0"
    THEN IF la # NoAmounts
         THEN LET state0 == alice_State0_new(la.btc, la.xmr, RefundTimelock,
                                             PunishTimelock, AliceKeys.redeem_address,
                                             AliceKeys.punish_address)
                  r == alice_State0_receive(state0, ev.msg)
              IN  [pc |-> IF r.ok THEN "await_message1" ELSE "panicked",
                   last_amounts |-> la, state |-> r.state, sent |-> {}]
         ELSE [pc |-> "panicked", last_amounts |-> la, state |-> NoAliceState, sent |-> {}]
    ELSE [pc |-> "panicked", last_amounts |-> la, state |-> NoAliceState, sent |-> {}]

\* A loop that caches the amounts of the first request only.
swap_loop_keeping_first_amounts(ev, la) ==
    IF ev.type = "ConnectionEstablished"
    THEN [pc |-> "loop", last_amounts |-> la, state |-> NoAliceState, sent |-> {}]
    ELSE IF ev.type = "Request"
    THEN LET r == calculate_amounts(Amount_from_sat(ev.btc), TRUE)
             amounts == [btc |-> r.btc, xmr |-> r.xmr]
         IN  [pc |-> IF r.panicked THEN "panicked" ELSE "loop",
              last_amounts |-> IF la = NoAmounts THEN amounts ELSE la, state |-> NoAliceState,
              sent |-> send_amounts(ev.channel, amounts)]
    ELSE IF ev.type = "Message0"
    THEN IF la # NoAmounts
         THEN LET state0 == alice_State0_new(la.btc, la.xmr, RefundTimelock,
                                             PunishTimelock, AliceKeys.redeem_address,
                                             AliceKeys.punish_address)
                  r == alice_State0_receive(state0, ev.msg)
              IN  [pc |-> IF r.ok THEN "await_message1" ELSE "panicked",
                   last_amounts |-> la, state |-> r.state, sent |-> {}]
         ELSE [pc |-> "loop", last_amounts |-> la, state |-> NoAliceState, sent |-> {}]
    ELSE [pc |-> "panicked", last_amounts |-> la, state |-> NoAliceState, sent |-> {}]

\* swap()'s first loop, on one event: a request for amounts is answered and cached,
\* Message0 ends the loop once amounts were requested and is received by a fresh
\* State0 (expect: a failed receive panics), any other event panics.
swap_loop(ev, la) ==
    IF ev.type = "ConnectionEstablished"
    THEN [pc |-> "loop", last_amounts |-> la, state |-> NoAliceState, sent |-> {}]
    ELSE IF ev.type = "Request"
    THEN LET r == calculate_amounts(Amount_from_sat(ev.btc), TRUE)
             amounts == [btc |-> r.btc, xmr |-> r.xmr]
         IN  [pc |-> IF r.panicked THEN "panicked" ELSE "loop",
              last_amounts |-> amounts, state |-> NoAliceState,
              sent |-> send_amounts(ev.channel, amounts)]
    ELSE IF ev.type = "Message0"
    THEN IF la # NoAmounts
         THEN LET state0 == alice_State0_new(la.btc, la.xmr, RefundTimelock,
                                             PunishTimelock, AliceKeys.redeem_address,
                                             AliceKeys.punish_address)
                  r == alice_State0_receive(state0, ev.msg)
              IN  [pc |-> IF r.ok THEN "await_message1" ELSE "panicked",
                   last_amounts |-> la, state |-> r.state, sent |-> {}]
         ELSE [pc |-> "loop", last_amounts |-> la, state |-> NoAliceState, sent |-> {}]
    ELSE [pc |-> "panicked", last_amounts |-> la, state |-> NoAliceState, sent |-> {}]

\* swap() on the event after the loop: Message1 gives State2 and Alice's Message1
\* is sent back, any other event panics.
swap_await_message1(ev, st) ==
    IF ev.type = "Message1"
    THEN LET state2 == alice_State1_receive(st, ev.msg)
         IN  [pc |-> "await_message2", state |-> state2,
              sent |-> send_message1(ev.channel, alice_State2_next_message(state2))]
    ELSE [pc |-> "panicked", state |-> st, sent |-> {}]

\* swap() on the last event: Message2 gives State3 and the thread parks, or its
\* receive fails and swap() returns the error; any other event panics.
swap_await_message2(ev, st) ==
    IF ev.type = "Message2"
    THEN LET r == alice_State2_receive(st, ev.msg)
         IN  [pc |-> IF r.ok THEN "parked" ELSE "failed", state |-> r.state]
    ELSE [pc |-> "panicked", state |-> st]

AliceSwapLoop ==
    /\ alicePc = "loop" /\ nEvents < MaxEvents
    /\ \E ev \in OutEvents(nEvents + 1) :
          LET r == swap_loop(ev, last_amounts)
          IN  /\ alicePc' = r.pc
              /\ last_amounts' = r.last_amounts
              /\ aliceState' = r.state
              /\ aliceSent' = aliceSent \cup r.sent
              /\ channels' = channels \cup ChannelsOf({ev})
              /\ aliceEvents' = Append(aliceEvents, ev.type)
    /\ nEvents' = nEvents + 1
    /\ UNCHANGED <<bobVars, db, storeVars, callVars, asbVars>>

AliceSwapMessage1 ==
    /\ alicePc = "await_message1" /\ nEvents < MaxEvents
    /\ \E ev \in OutEvents(nEvents + 1) :
          LET r == swap_await_message1(ev, aliceState)
          IN  /\ alicePc' = r.pc
              /\ aliceState' = r.state
              /\ aliceSent' = aliceSent \cup r.sent
              /\ channels' = channels \cup ChannelsOf({ev})
              /\ aliceEvents' = Append(aliceEvents, ev.type)
    /\ nEvents' = nEvents + 1
    /\ UNCHANGED <<last_amounts, bobVars, db, storeVars, callVars, asbVars>>

AliceSwapMessage2 ==
    /\ alicePc = "await_message2" /\ nEvents < MaxEvents
    /\ \E ev \in OutEvents(nEvents + 1) :
          LET r == swap_await_message2(ev, aliceState)
          IN  /\ alicePc' = r.pc
              /\ aliceState' = r.state
              /\ channels' = channels \cup ChannelsOf({ev})
              /\ aliceEvents' = Append(aliceEvents, ev.type)
    /\ nEvents' = nEvents + 1
    /\ UNCHANGED <<last_amounts, aliceSent, bobVars, db, storeVars, callVars, asbVars>>

\* thread::park() returns only when the thread is unparked or wakes spuriously;
\* nothing in swap() unparks it.
AliceSwapUnpark ==
    /\ alicePc = "parked"
    /\ alicePc' = "returned"
    /\ UNCHANGED <<last_amounts, aliceState, aliceSent, channels, nEvents, aliceEvents,
                   bobVars, db, storeVars, callVars, asbVars>>

----------------------------------------------------------------------------
(* The functions of the library, each called on inputs drawn from bounded    *)
(* sets: the last call and its result are the state.                        *)

NoCall == [op |-> "none"]

\* The satoshi amounts calculate_amounts is called with: every u64 whose limbs are
\* 0, 1 or 65535, one bitcoin, the largest amount whose quote fits in 64 bits, the
\* amount after it, and all the bitcoin there are.
U64Inputs ==
    {<<a, b, c, d>> : a \in {0, 1, 65535}, b \in {0, 1, 65535},
                      c \in {0, 1, 65535}, d \in {0, 1, 65535}}
        \cup {<<57600, 1525, 0, 0>>, <<46573, 63392, 4294, 0>>,
              <<46574, 63392, 4294, 0>>, <<16384, 23047, 30192, 7>>}

CallCalculateAmounts ==
    /\ \E btc \in U64Inputs, overflow_checks \in BOOLEAN :
          /\ call' = [op |-> "calculate_amounts", btc |-> btc,
                      overflow_checks |-> overflow_checks]
          /\ ret' = calculate_amounts(btc, overflow_checks)
    /\ UNCHANGED <<bobVars, db, aliceVars, storeVars, asbVars>>

\* The largest timelock and the largest confirmation count current_epoch is called
\* with.
MaxTimelock == 3
MaxDepth == 4

\* wallet::ScriptStatus
ScriptStatus_Unseen == [tag |-> "Unseen", confirmations |-> 0]
ScriptStatus_InMempool == [tag |-> "InMempool", confirmations |-> 0]
ScriptStatus_from_confirmations(n) == [tag |-> "Confirmed", confirmations |-> n]
ScriptStatuses ==
    {ScriptStatus_Unseen, ScriptStatus_InMempool}
        \cup {ScriptStatus_from_confirmations(n) : n \in 1..MaxDepth}

\* ScriptStatus::is_confirmed_with
is_confirmed_with(status, target) ==
    status.tag = "Confirmed" /\ status.confirmations >= target

\* A current_epoch whose cancel epoch lasts only while TxCancel is unseen.
current_epoch_until_cancel_is_seen(cancel_timelock, punish_timelock, tx_lock_status, tx_cancel_status) ==
    IF is_confirmed_with(tx_cancel_status, punish_timelock) THEN "Punish"
    ELSE IF /\ is_confirmed_with(tx_lock_status, cancel_timelock)
            /\ tx_cancel_status = ScriptStatus_Unseen
         THEN "Cancel"
    ELSE "None"

\* current_epoch with its two tests in the other order.
current_epoch_lock_first(cancel_timelock, punish_timelock, tx_lock_status, tx_cancel_status) ==
    IF is_confirmed_with(tx_lock_status, cancel_timelock) THEN "Cancel"
    ELSE IF is_confirmed_with(tx_cancel_status, punish_timelock) THEN "Punish"
    ELSE "None"

current_epoch(cancel_timelock, punish_timelock, tx_lock_status, tx_cancel_status) ==
    IF is_confirmed_with(tx_cancel_status, punish_timelock) THEN "Punish"
    ELSE IF is_confirmed_with(tx_lock_status, cancel_timelock) THEN "Cancel"
    ELSE "None"

\* Wallet::status_of_script: what the wallet reports of a transaction of the chain.
status_of_script(ch, txid) ==
    IF ~Known(ch, txid) THEN ScriptStatus_Unseen
    ELSE IF Entry(ch, txid).conf = 0 THEN ScriptStatus_InMempool
    ELSE ScriptStatus_from_confirmations(Entry(ch, txid).conf)

\* The epoch of the swap on a chain, for the timelocks of the swap.
epoch_of(ch) ==
    current_epoch(RefundTimelock, PunishTimelock, status_of_script(ch, "lock"),
                  status_of_script(ch, "cancel"))

CallCurrentEpoch ==
    /\ \E cancel_timelock \in 1..MaxTimelock, punish_timelock \in 1..MaxTimelock,
          tx_lock_status \in ScriptStatuses, tx_cancel_status \in ScriptStatuses :
          /\ call' = [op |-> "current_epoch", cancel_timelock |-> cancel_timelock,
                      punish_timelock |-> punish_timelock,
                      tx_lock_status |-> tx_lock_status,
                      tx_cancel_status |-> tx_cancel_status]
          /\ ret' = current_epoch(cancel_timelock, punish_timelock, tx_lock_status,
                                  tx_cancel_status)
    /\ UNCHANGED <<bobVars, db, aliceVars, storeVars, asbVars>>

\* The digests recover is called with: the transactions that spend the TxLock of
\* the swap under an encrypted signature.
AdaptorDigests ==
    LET tx_lock == TxLock_new(BobParams.btc, Secp(AliceKeys.a), Secp(BobParams.b))
        tx_cancel == TxCancel_new(tx_lock, RefundTimelock, Secp(AliceKeys.a),
                                  Secp(BobParams.b))
    IN  {digest(TxRedeem_new(tx_lock, AliceKeys.redeem_address)),
         digest(TxRefund_new(tx_cancel, BobParams.refund_address))}

\* The State4 of a Bob whose key is k, after a handshake with an Alice whose
\* cross-curve scalar is y.
State4_of(k, y) ==
    LET st0 == State0_new([BobParams EXCEPT !.b = k], RefundTimelock, PunishTimelock)
        msg0 == [type |-> "Message0", A |-> Secp(AliceKeys.a), S_a_monero |-> Ed(y),
                 S_a_bitcoin |-> Secp(y), dleq_proof_s_a |-> dleq_prove(y),
                 v_a |-> AliceKeys.v_a, redeem_address |-> AliceKeys.redeem_address,
                 punish_address |-> AliceKeys.punish_address]
        st1 == State1_from(st0, msg0)
        tx_cancel == TxCancel_new(st1.tx_lock, st1.refund_timelock, st1.A, public(k))
        tx_refund == TxRefund_new(tx_cancel, st1.refund_address)
        msg1 == [type |-> "Message1",
                 tx_cancel_sig |-> sign(AliceKeys.a, digest(tx_cancel)),
                 tx_refund_encsig |-> encsign(AliceKeys.a, Secp(st1.s_b),
                                              digest(tx_refund))]
    IN  CopyFields("State4", State2_from(st1, msg1))

\* The inputs of the round trip: every signing key, every scalar, both digests.
RecoverInputs ==
    {[op |-> "recover", k |-> k, y |-> y, digest |-> m] :
        k \in Scalars, y \in Scalars, m \in AdaptorDigests}

\* k encsigns m under y.G, the encrypted signature is decrypted with y, and recover
\* is given y.G, the signature and the encrypted signature.  Then the same as Bob
\* meets it: his State4 holds k and y.G, Alice has decrypted the encrypted signature
\* of his Message3 with y and published TxRedeem with her own signature and the
\* decrypted one, and he calls watch_for_redeem_btc.
CallRecover ==
    /\ call \in RecoverInputs /\ ret = NoCall
    /\ LET encsig == encsign(call.k, Secp(call.y), call.digest)
           st == State4_of(call.k, call.y)
           tx_redeem == TxRedeem_new(st.tx_lock, st.redeem_address)
           published ==
              {[tx |-> st.tx_lock, witness |-> NoWitness, conf |-> 1],
               [tx |-> tx_redeem,
                witness |->
                   [sig_a |-> sign(AliceKeys.a, digest(tx_redeem)),
                    sig_b |-> decrypt_signature(call.y,
                                 State4_next_message(st).tx_redeem_encsig)],
                conf |-> 0]}
       IN  ret' = [recovered |->
                      recover(Secp(call.y), decrypt_signature(call.y, encsig), encsig),
                   watched |-> State4_watch_for_redeem_btc(st, published)]
    /\ UNCHANGED <<call, bobVars, db, aliceVars, storeVars, asbVars>>

----------------------------------------------------------------------------
(* The command line of the swap CLI (swap/src/cli/command.rs).              *)

\* Option<T>
None == [some |-> FALSE]
Some(x) == [some |-> TRUE, value |-> x]
\* Result<T>
Ok(x) == [ok |-> TRUE, value |-> x]
Err(e) == [ok |-> FALSE, err |-> e]

DEFAULT_MONERO_DAEMON_ADDRESS == "node.melo.tools:18081"
DEFAULT_MONERO_DAEMON_ADDRESS_STAGENET == "stagenet.melo.tools:38081"
DEFAULT_ELECTRUM_RPC_URL == "ssl://electrum.blockstream.info:50002"
DEFAULT_ELECTRUM_RPC_URL_TESTNET == "ssl://electrum.blockstream.info:60002"
DEFAULT_BITCOIN_CONFIRMATION_TARGET == 3
DEFAULT_BITCOIN_CONFIRMATION_TARGET_TESTNET == 1

\* PathBuf::join of a relative component: a path is the sequence of its components.
join(path, component) == path \o <<component>>

\* data::os_default: system_data_dir()?.join("cli")
os_default(system_data_dir) ==
    IF system_data_dir.ok THEN Ok(join(system_data_dir.value, "cli"))
    ELSE system_data_dir

\* A data_dir_from that puts testnet data where mainnet data goes.
data_dir_from_one_directory(arg_dir, testnet, system_data_dir) ==
    LET base_dir == IF arg_dir.some THEN Ok(arg_dir.value)
                    ELSE os_default(system_data_dir)
    IN  IF ~base_dir.ok THEN base_dir ELSE Ok(join(base_dir.value, "mainnet"))

\* data::data_dir_from.  system_data_dir: what crate::fs::system_data_dir returns.
data_dir_from(arg_dir, testnet, system_data_dir) ==
    LET base_dir == IF arg_dir.some THEN Ok(arg_dir.value)
                    ELSE os_default(system_data_dir)
        sub_directory == IF testnet THEN "testnet" ELSE "mainnet"
    IN  IF ~base_dir.ok THEN base_dir ELSE Ok(join(base_dir.value, sub_directory))

bitcoin_electrum_rpc_url_from(url, testnet) ==
    IF url.some THEN Ok(url.value)
    ELSE IF testnet THEN Ok(DEFAULT_ELECTRUM_RPC_URL_TESTNET)
    ELSE Ok(DEFAULT_ELECTRUM_RPC_URL)

rendezvous_namespace_from(is_testnet) == IF is_testnet THEN "Testnet" ELSE "Mainnet"

\* A bitcoin_target_block_from that prefers the default to the value given.
bitcoin_target_block_from_default_first(target_block, testnet) ==
    IF testnet THEN DEFAULT_BITCOIN_CONFIRMATION_TARGET_TESTNET
    ELSE IF target_block.some THEN target_block.value
    ELSE DEFAULT_BITCOIN_CONFIRMATION_TARGET

bitcoin_target_block_from(target_block, testnet) ==
    IF target_block.some THEN target_block.value
    ELSE IF testnet THEN DEFAULT_BITCOIN_CONFIRMATION_TARGET_TESTNET
    ELSE DEFAULT_BITCOIN_CONFIRMATION_TARGET

monero_daemon_address_from(address, testnet) ==
    IF address.some THEN address.value
    ELSE IF testnet THEN DEFAULT_MONERO_DAEMON_ADDRESS_STAGENET
    ELSE DEFAULT_MONERO_DAEMON_ADDRESS

\* env::Testnet::get_config() and env::Mainnet::get_config()
env_config_from(testnet) == IF testnet THEN "Testnet" ELSE "Mainnet"

MoneroAddressNetworkMismatch(expected, actual) ==
    [error |-> "MoneroAddressNetworkMismatch", expected |-> expected, actual |-> actual]

\* A validate_monero_address that expects a mainnet address whatever the flag.
validate_monero_address_for_mainnet(address, testnet) ==
    LET expected_network == "Mainnet"
    IN  IF address.network # expected_network
        THEN Err(MoneroAddressNetworkMismatch(expected_network, address.network))
        ELSE Ok(address)

validate_monero_address(address, testnet) ==
    LET expected_network == IF testnet THEN "Stagenet" ELSE "Mainnet"
    IN  IF address.network # expected_network
        THEN Err(MoneroAddressNetworkMismatch(expected_network, address.network))
        ELSE Ok(address)

\* The Command of each RawCommand, or the first error of its fields.
command_from(cmd, is_testnet) ==
    IF cmd.type = "BuyXmr"
    THEN LET url == bitcoin_electrum_rpc_url_from(cmd.bitcoin_electrum_rpc_url, is_testnet)
             address == validate_monero_address(cmd.monero_receive_address, is_testnet)
         IN  IF ~url.ok THEN url
             ELSE IF ~address.ok THEN address
             ELSE Ok([type |-> "BuyXmr", seller |-> cmd.seller,
                      bitcoin_electrum_rpc_url |-> url.value,
                      bitcoin_target_block |->
                          bitcoin_target_block_from(cmd.bitcoin_target_block, is_testnet),
                      bitcoin_change_address |-> cmd.bitcoin_change_address,
                      monero_receive_address |-> address.value,
                      monero_daemon_address |->
                          monero_daemon_address_from(cmd.monero_daemon_address, is_testnet),
                      tor_socks5_port |-> cmd.tor_socks5_port])
    ELSE IF cmd.type = "History"
    THEN Ok([type |-> "History"])
    ELSE IF cmd.type = "Resume"
    THEN LET url == bitcoin_electrum_rpc_url_from(cmd.bitcoin_electrum_rpc_url, is_testnet)
         IN  IF ~url.ok THEN url
             ELSE Ok([type |-> "Resume", swap_id |-> cmd.swap_id,
                      bitcoin_electrum_rpc_url |-> url.value,
                      bitcoin_target_block |->
                          bitcoin_target_block_from(cmd.bitcoin_target_block, is_testnet),
                      monero_daemon_address |->
                          monero_daemon_address_from(cmd.monero_daemon_address, is_testnet),
                      tor_socks5_port |-> cmd.tor_socks5_port])
    ELSE IF cmd.type \in {"Cancel", "Refund"}
    THEN LET url == bitcoin_electrum_rpc_url_from(cmd.bitcoin_electrum_rpc_url, is_testnet)
         IN  IF ~url.ok THEN url
             ELSE Ok([type |-> cmd.type, swap_id |-> cmd.swap_id, force |-> cmd.force,
                      bitcoin_electrum_rpc_url |-> url.value,
                      bitcoin_target_block |->
                          bitcoin_target_block_from(cmd.bitcoin_target_block, is_testnet)])
    ELSE Ok([type |-> "ListSellers", rendezvous_point |-> cmd.rendezvous_point,
             namespace |-> rendezvous_namespace_from(is_testnet),
             tor_socks5_port |-> cmd.tor_socks5_port])

\* parse_args_and_apply_defaults, from the RawArguments clap has parsed: the fields
\* of Arguments in their order, the first error returned.
parse_args_and_apply_defaults(args, system_data_dir) ==
    LET is_testnet == args.testnet
        data_dir == data_dir_from(args.data, is_testnet, system_data_dir)
        cmd == command_from(args.cmd, is_testnet)
    IN  IF ~data_dir.ok THEN data_dir
        ELSE IF ~cmd.ok THEN cmd
        ELSE Ok([env_config |-> env_config_from(is_testnet), debug |-> args.debug,
                 json |-> args.json, data_dir |-> data_dir.value, cmd |-> cmd.value])

\* The command lines the CLI is called with.
MoneroAddresses ==
    {[network |-> n, address |-> "monero"] : n \in {"Mainnet", "Stagenet", "Testnet"}}
BitcoinAddresses ==
    {[network |-> n, address |-> "bitcoin"] : n \in {"Bitcoin", "Testnet"}}
ElectrumUrls == {None, Some("ssl://electrum.example.org:50002")}
TargetBlocks == {None, Some(1), Some(3), Some(6)}
DaemonAddresses == {None, Some("monero.example.org:18081")}
RawCommands ==
    {[type |-> "BuyXmr", seller |-> "seller", bitcoin_electrum_rpc_url |-> u,
      bitcoin_target_block |-> t, bitcoin_change_address |-> c,
      monero_daemon_address |-> d, monero_receive_address |-> r,
      tor_socks5_port |-> "9050"] :
        u \in ElectrumUrls, t \in TargetBlocks, c \in BitcoinAddresses,
        d \in DaemonAddresses, r \in MoneroAddresses}
    \cup {[type |-> "History"]}
    \cup {[type |-> "Resume", swap_id |-> "swap1", bitcoin_electrum_rpc_url |-> u,
           bitcoin_target_block |-> t, monero_daemon_address |-> d,
           tor_socks5_port |-> "9050"] :
             u \in ElectrumUrls, t \in TargetBlocks, d \in DaemonAddresses}
    \cup {[type |-> ty, swap_id |-> "swap1", force |-> FALSE,
           bitcoin_electrum_rpc_url |-> u, bitcoin_target_block |-> t] :
             ty \in {"Cancel", "Refund"}, u \in ElectrumUrls, t \in TargetBlocks}
    \cup {[type |-> "ListSellers", rendezvous_point |-> "rendezvous",
           tor_socks5_port |-> "9050"]}
RawArguments ==
    {[testnet |-> t, data |-> d, debug |-> FALSE, json |-> FALSE, cmd |-> c] :
        t \in BOOLEAN, d \in {None, Some(<<"some", "path", "to", "dir">>)},
        c \in RawCommands}
SystemDataDirs ==
    {Ok(<<"home", "user", "data", "xmr-btc-swap">>), Err([error |-> "NoDataDirectory"])}

CallParseArgs ==
    /\ \E args \in RawArguments, system_data_dir \in SystemDataDirs :
          /\ call' = [op |-> "parse_args_and_apply_defaults", args |-> args,
                      system_data_dir |-> system_data_dir]
          /\ ret' = parse_args_and_apply_defaults(args, system_data_dir)
    /\ UNCHANGED <<bobVars, db, aliceVars, storeVars, asbVars>>

----------------------------------------------------------------------------
(* The automated swap backend (swap/src/bin/asb.rs).                        *)

\* How many swaps the backend is asked for or finds in its database.
MaxSwaps == 3
AsbSwapIds == 1 .. MaxSwaps

\* main before the Start command has run.
NotStarted ==
    [pc |-> "not started", resume_only |-> FALSE, unfinished |-> {},
     swap_receiver |-> <<>>, tasks |-> [id \in AsbSwapIds |-> "none"], events |-> <<>>]

\* Command::Start of main: the pattern binds max_buy and ask_spread, and the event
\* loop is built from the swarm, the wallets, the database, the rate and max_buy.
\* unfinished: the swaps the database holds in a state that is not final.
main_start(resume_only, unfinished) ==
    [pc |-> "running", resume_only |-> resume_only, unfinished |-> unfinished,
     swap_receiver |-> <<>>, tasks |-> [id \in AsbSwapIds |-> "none"], events |-> <<>>]

\* The swaps the backend has heard of: on the channel or given to a task.
Range(f) == {f[i] : i \in DOMAIN f}
AsbKnown(a) == Range(a.swap_receiver) \cup {id \in AsbSwapIds : a.tasks[id] # "none"}

\* EventLoop::run on a peer's request for a new swap: the swap goes to the channel
\* whose other end main holds.
event_loop_swap_request(a, id) ==
    [a EXCEPT !.swap_receiver = Append(@, id)]

\* The outer task of main: swap_receiver.recv() and tokio::spawn of the swap's task.
spawn_swap(a) ==
    LET swap == Head(a.swap_receiver)
    IN  [a EXCEPT !.swap_receiver = Tail(@),
                  !.tasks[swap] = "running",
                  !.events = Append(@, [event |-> "spawned", swap_id |-> swap])]

\* A swap task that lets the error of run(swap) end the backend.
swap_task_propagating(a, swap_id, result) ==
    IF result = "Ok"
    THEN [a EXCEPT !.tasks[swap_id] = "finished",
                   !.events = Append(@, [event |-> "Swap finished", swap_id |-> swap_id])]
    ELSE [a EXCEPT !.tasks[swap_id] = "failed", !.pc = "stopped",
                   !.events = Append(@, [event |-> "Swap failed", swap_id |-> swap_id])]

\* The task of one swap once run(swap) has returned: what it logs.
swap_task(a, swap_id, result) ==
    IF result = "Ok"
    THEN [a EXCEPT !.tasks[swap_id] = "finished",
                   !.events = Append(@, [event |-> "Swap finished", swap_id |-> swap_id])]
    ELSE [a EXCEPT !.tasks[swap_id] = "failed",
                   !.events = Append(@, [event |-> "Swap failed", swap_id |-> swap_id])]

AsbStart ==
    /\ asb.pc = "not started"
    /\ \E resume_only \in BOOLEAN, unfinished \in SUBSET {1} :
          asb' = main_start(resume_only, unfinished)
    /\ UNCHANGED <<bobVars, db, aliceVars, storeVars, callVars>>

AsbSwapRequest ==
    /\ asb.pc = "running"
    /\ \E id \in AsbSwapIds \ (AsbKnown(asb) \cup asb.unfinished) :
          asb' = event_loop_swap_request(asb, id)
    /\ UNCHANGED <<bobVars, db, aliceVars, storeVars, callVars>>

AsbSpawnSwap ==
    /\ asb.pc = "running"
    /\ asb.swap_receiver # <<>>
    /\ asb' = spawn_swap(asb)
    /\ UNCHANGED <<bobVars, db, aliceVars, storeVars, callVars>>

AsbSwapTask ==
    /\ \E swap_id \in AsbSwapIds, result \in {"Ok", "Err"} :
          /\ asb.tasks[swap_id] = "running"
          /\ asb' = swap_task(asb, swap_id, result)
    /\ UNCHANGED <<bobVars, db, aliceVars, storeVars, callVars>>

----------------------------------------------------------------------------
(* The specification of Bob's swap.                                        *)

InitSwap ==
    /\ bob = State0_new(BobParams, RefundTimelock, PunishTimelock)
    /\ bobPc = "idle"
    /\ kept = NoState
    /\ refundPc = "idle"
    /\ local = NoLocal
    /\ lastErr = "none"
    /\ sent = {}
    /\ received = {}
    /\ calls = {}
    /\ chain = {}
    /\ xmrChain = {}
    /\ db = [k \in SwapIds |-> NoValue]
    /\ xmr_bob = 0
    /\ alicePc = "loop"
    /\ last_amounts = NoAmounts
    /\ aliceState = NoAliceState
    /\ aliceSent = {}
    /\ channels = {}
    /\ nEvents = 0
    /\ aliceEvents = <<>>
    /\ disk = [k \in SwapIds |-> NoValue]
    /\ writers = [w \in Writers |-> IdleWriter]
    /\ inserted = {}
    /\ got = [ok |-> FALSE, state |-> NoValue]
    /\ ret = NoCall
    /\ asb = NotStarted

\* No call of a library function has been made.
Init == InitSwap /\ call = NoCall

\* The round trip of the adaptor signature is about to be made on one of its
\* inputs.
InitAdaptor == InitSwap /\ call \in RecoverInputs

\* Bob's next_state and refund_btc called by whoever holds the state, whenever;
\* Alice's moves on the two chains; the blocks.
Next ==
    \/ NextState0Send
    \/ NextState0Receive
    \/ NextState0Build
    \/ NextState1Send
    \/ NextState1Receive
    \/ NextState2Sign
    \/ NextState2Broadcast
    \/ NextState2Send
    \/ NextState3Receive
    \/ NextState3Check
    \/ NextState4Send
    \/ NextState4Watch
    \/ NextState4Claim
    \/ NextState5
    \/ CloneState
    \/ RefundBtcCancel
    \/ RefundBtcRefund
    \/ AliceLockXmr
    \/ AliceRedeem
    \/ AliceCancel
    \/ AlicePunish
    \/ Mine

Spec == Init /\ [][Next]_vars

\* Alice's swap() on the events Bob causes.
NextAlice ==
    \/ AliceSwapLoop
    \/ AliceSwapMessage1
    \/ AliceSwapMessage2
    \/ AliceSwapUnpark

SpecAlice == Init /\ [][NextAlice]_vars

\* The executor runs swap() whenever an event is there for it; nothing makes
\* thread::park() return.
SpecAliceLive ==
    SpecAlice /\ WF_vars(AliceSwapLoop \/ AliceSwapMessage1 \/ AliceSwapMessage2)

\* The callers of the store.
NextStore ==
    \/ StoreInsertRead
    \/ StoreInsertCas
    \/ StoreInsertFlush
    \/ StoreGet

SpecStore == Init /\ [][NextStore]_vars

\* The library's functions, called in any order on any of their inputs.
NextCalls ==
    \/ CallCalculateAmounts
    \/ CallCurrentEpoch
    \/ CallParseArgs

SpecCalls == Init /\ [][NextCalls]_vars

\* The round trip, made once on each of its inputs.
NextAdaptor == CallRecover

SpecAdaptor == InitAdaptor /\ [][NextAdaptor]_vars

\* The automated swap backend, its peers and its swaps.
NextAsb ==
    \/ AsbStart
    \/ AsbSwapRequest
    \/ AsbSpawnSwap
    \/ AsbSwapTask

SpecAsb == Init /\ [][NextAsb]_vars

----------------------------------------------------------------------------
(* Properties of Bob's swap.                                               *)

NewlyKnown(txid) == ~Known(chain, txid) /\ Known(chain', txid)
Called(op) == \E c \in calls : c.op = op

\* A state holds a TxCancel signature that verifies under A and a TxRefund encrypted
\* signature that verifies under A and Bob's S_b, both on the transactions built
\* from the state's own tx_lock.
HoldsVerifiedSigs(st) ==
    LET tx_cancel == TxCancel_new(st.tx_lock, st.refund_timelock, st.A, public(st.b))
        tx_refund == TxRefund_new(tx_cancel, st.refund_address)
    IN  /\ verify_sig(st.A, digest(tx_cancel), st.tx_cancel_sig_a)
        /\ verify_encsig(st.A, Secp(st.s_b), digest(tx_refund), st.tx_refund_encsig)

\* C1: TxLock becomes known to the Bitcoin network only in a step taken from a State2
\* whose tx_cancel_sig_a verifies under A on TxCancel's digest and whose
\* tx_refund_encsig verifies under A and S_b on TxRefund's digest; every State2,
\* State3 and State4 holds such signatures; and after a State1::receive that failed
\* either check there is no State2 and TxLock is not published.
C1_LockOnlyAfterVerifiedSigs ==
    /\ [][NewlyKnown("lock") => (bob.tag = "State2" /\ HoldsVerifiedSigs(bob))]_vars
    /\ [](bob.tag \in {"State2", "State3", "State4"} => HoldsVerifiedSigs(bob))
    /\ [](lastErr \in {"InvalidSignature", "InvalidEncryptedSignature"}
            => (bob.tag = "Dropped" /\ ~Known(chain, "lock")))

\* TxLock is published and Bob, in State3, holds the two verified signatures.
C1_Witness ==
    /\ Known(chain, "lock")
    /\ bob.tag = "State3"
    /\ HoldsVerifiedSigs(bob)

\* C2: TxRedeem and TxRefund are never both known to the node, so never both
\* confirmed, in whatever order Alice's redeem and the two broadcasts of Bob's
\* refund_btc come: TxRedeem and the TxCancel that TxRefund spends are the two claims
\* on TxLock's output, and the node has at most one of them.
C2_RedeemRefundExclusive ==
    /\ ~(Known(chain, "redeem") /\ Known(chain, "refund"))
    /\ ~(Known(chain, "redeem") /\ Known(chain, "cancel"))
    /\ Known(chain, "refund") => Known(chain, "cancel")

\* Alice's TxRedeem came first: Bob, who had sent her Message3 and kept his State3,
\* called refund_btc once TxLock was old enough for TxCancel, and the node refused
\* the second claim on TxLock's output.
C2_Witness ==
    /\ Confirmed(chain, "redeem")
    /\ kept.tag = "State3"
    /\ refundPc = "idle"
    /\ lastErr = "BroadcastTxCancel"
    /\ Entry(chain, "lock").conf >= kept.refund_timelock

\* The stored record of the swap is the handshaken state: the verified signatures
\* of Alice, Bob's secrets, and the TxLock that is published.
StoredHandshaken(d, ch) ==
    LET r == get_latest_state(d, SwapId)
    IN  /\ r.ok
        /\ r.state.variant = "Handshaken"
        /\ HoldsVerifiedSigs(r.state.state)
        /\ r.state.state.b = BobParams.b
        /\ r.state.state.s_b = BobParams.s_b
        /\ \A e \in ch : e.tx.id = "lock" => e.tx = r.state.state.tx_lock

\* C3: in every step in which a Bitcoin transaction only Bob publishes (TxLock,
\* TxRefund) becomes known, the database already holds, before the step, the
\* handshaken state with Alice's verified signatures and Bob's secrets; and it
\* holds it for as long as TxLock is known.
C3_PersistBeforePublish ==
    /\ [][(NewlyKnown("lock") \/ NewlyKnown("refund")) => StoredHandshaken(db, chain')]_vars
    /\ [](Known(chain, "lock") => StoredHandshaken(db, chain))

\* C4: the wallet is asked to build TxLock only after Bob received a Message0 whose
\* S_a_monero decompresses and whose DLEQ proof verifies for (S_a_bitcoin,
\* S_a_monero); every later state holds such a pair; after a failed decompression or
\* a failed proof there is no State1 and the wallet was not asked.
C4_TxLockOnlyAfterDleq ==
    /\ Called("build_tx_lock_psbt") =>
          \E m \in received :
              /\ m.type = "Message0"
              /\ decompress_ok(m.S_a_monero)
              /\ dleq_verify(m.dleq_proof_s_a, m.S_a_bitcoin, m.S_a_monero)
    /\ bob.tag \in {"State1", "State2", "State3", "State4", "State5"} =>
          /\ decompress_ok(bob.S_a_monero)
          /\ bob.S_a_monero.k = bob.S_a_bitcoin.k
          /\ Called("build_tx_lock_psbt")
    /\ lastErr \in {"S_a is not a monero curve point", "InvalidDleqProof"} =>
          (bob.tag = "Dropped" /\ ~Called("build_tx_lock_psbt"))

\* Bob is in State1 with the TxLock the wallet built.
C4_Witness ==
    /\ bob.tag = "State1"
    /\ \E c \in calls : c.op = "build_tx_lock_psbt" /\ c.ok
    /\ bob.tx_lock = TxLock_new(BobParams.btc, Secp(AliceKeys.a), Secp(BobParams.b))

\* C5: Message3 (tx_redeem_encsig) is sent only after a check_transfer that
\* succeeded for the joint spend key S_a + S_b, the joint view key v_a + v_b, the
\* proof of Alice's Message2 and the amount xmr, such a transfer being on the Monero
\* chain; after a failed check there is no State4 and no Message3.
C5_Message3OnlyAfterCheckTransfer ==
    /\ (bob.tag = "State4" \/ \E m3 \in sent : m3.type = "Message3") =>
          /\ \E c \in calls, m2 \in received :
                /\ c.op = "check_transfer" /\ c.ok
                /\ m2.type = "Message2" /\ c.proof = m2.tx_lock_proof
                /\ c.spend = Ed(AliceKeys.s_a + BobParams.s_b)
                /\ c.view = Ed(AliceKeys.v_a + BobParams.v_b)
                /\ c.amount = BobParams.xmr
          /\ \E t \in xmrChain :
                /\ t.spend = Ed(AliceKeys.s_a + BobParams.s_b)
                /\ t.view = Ed(AliceKeys.v_a + BobParams.v_b)
                /\ t.amount = BobParams.xmr
    /\ lastErr = "CheckTransfer" =>
          (bob.tag = "Dropped" /\ ~\E m3 \in sent : m3.type = "Message3")

\* Bob has sent Message3.
C5_Witness ==
    /\ \E m3 \in sent : m3.type = "Message3"
    /\ bob.tag = "State4"
    /\ bobPc = "delay_for"

\* C6: Bob is in State5, or has asked the Monero wallet to import the output, only
\* when TxRedeem is known to the node with a signature under B in its witness; the
\* s_a of State5 is the discrete logarithm of S_a_bitcoin.
C6_SecretOnlyFromRedeem ==
    /\ (bob.tag = "State5" \/ Called("import_output")) =>
          /\ Known(chain, "redeem")
          /\ \E e \in chain :
                /\ e.tx.id = "redeem"
                /\ verify_sig(Secp(BobParams.b), digest(e.tx), e.witness.sig_b)
    /\ bob.tag = "State5" => Secp(bob.s_a) = bob.S_a_bitcoin

\* Bob is in State5 with Alice's s_a.
C6_Witness ==
    /\ bob.tag = "State5"
    /\ bob.s_a = AliceKeys.s_a
    /\ \E c \in calls : c.op = "import_output" /\ c.ok /\ c.spend_key = AliceKeys.s_a + BobParams.s_b

\* C7: Bob's watcher does not give up merely because TxRedeem is not yet on chain
\* when it looks: there is no state in which Alice has published TxRedeem while
\* Bob's State4 is gone, lost to a failed look-up of TxRedeem, so that he never
\* recovers s_a.
C7_WatcherWaitsForRedeem ==
    ~(/\ Known(chain, "redeem")
      /\ bob.tag = "Dropped"
      /\ lastErr = "GetRawTransaction")

\* C8: a refund_btc call made when TxCancel is already known to the node, with the
\* node reachable, both signings succeeding and TxCancel's output unspent, goes on
\* to its broadcast of TxRefund.
C8_RetryAfterCancelRefunds ==
    [][(/\ RefundBtcCancelCall(TRUE, TRUE, TRUE)
        /\ Known(chain, "cancel")
        /\ ~Known(chain, "refund") /\ ~Known(chain, "punish"))
       => refundPc' = "broadcast_tx_refund"]_vars

\* C9: in State3 as well as in State4, once TxLock is published and before the
\* redeem signature is recovered, the transition that publishes TxCancel and then
\* TxRefund is available to Bob.
C9_RefundAvailableInState3AndState4 ==
    (/\ bob.tag \in {"State3", "State4"} /\ bobPc = "idle" /\ refundPc = "idle"
     /\ Known(chain, "lock"))
        => ENABLED RefundBtcCancel

\* C10: after next_state has failed with UnexpectedMessage, Bob still holds the
\* state he was in (it can be re-entered), or at least a stored record of the swap
\* exists to resume from.
C10_UnexpectedMessageKeepsState ==
    lastErr = "UnexpectedMessage" =>
        \/ bob.tag \in {"State0", "State1", "State3"}
        \/ get_latest_state(db, SwapId).ok

----------------------------------------------------------------------------
(* Properties of Alice's swap(), of Bob's retries and of the store.         *)

\* C11: whatever events Bob causes, in whatever order, Alice's swap() never panics.
C11_AliceNeverPanics ==
    alicePc # "panicked"

\* C12: after next_state failed on the send of Message2, TxLock being broadcast,
\* next_state invoked again from the same State2, the copy the caller has kept,
\* with no failure of transport or wallet, completes the transition to State3.
C12_RetryAfterFailedSendReachesState3 ==
    (/\ bob.tag = "Dropped"
     /\ lastErr = "SendMessage"
     /\ Known(chain, "lock")
     /\ ~\E m \in sent : m.type = "Message2"
     /\ kept.tag = "State2")
        => LET s2 == next_state_State2_sign(kept, "none")
               s3 == next_state_State2_broadcast(kept, s2.local, chain, TRUE)
           IN  /\ s2.err = "none"
               /\ s3.err = "none"
               /\ next_state_State2_send(kept, s3.local, "none").state.tag = "State3"

\* C13: when the handshake is complete, the amounts of Alice's state are those of
\* Bob's: her btc is the amount of the TxLock Bob built and her xmr is the amount
\* she quoted for it.
C13_AmountsAgree ==
    alicePc \in {"parked", "returned"} =>
        /\ aliceState.btc = Amount_from_sat(aliceState.tx_lock.amount)
        /\ aliceState.xmr =
              calculate_amounts(Amount_from_sat(aliceState.tx_lock.amount), TRUE).xmr

\* The step in which writer w's compare-and-swap runs.
CasStepOf(w) == writers[w].pc = "read" /\ writers'[w].pc # "read"
\* The step in which writer w's insert_latest_state returns Ok.
ReturnsOk(w) == writers[w].pc = "written" /\ writers'[w].result = "Ok"

\* C14: for every swap id and state, whatever the database holds, a successful
\* insert_latest_state followed by get_latest_state gives the state back, the key
\* absent or not; and after every successful compare-and-swap of a caller,
\* get_latest_state finds the state that caller stored.
C14_PersistenceRoundTrip ==
    /\ [](\A k \in SwapIds, v \in StoredStates :
            LET r == insert_latest_state(db, db, k, v, TRUE, TRUE, TRUE, TRUE)
            IN  r.ok /\ get_latest_state(r.db, k) = [ok |-> TRUE, state |-> v])
    /\ [][\A w \in Writers :
            (CasStepOf(w) /\ writers'[w].pc = "written") =>
                get_latest_state(db', writers[w].key) =
                    [ok |-> TRUE, state |-> deserialize(writers[w].new_value)]]_vars

\* Two inserts under the same key have returned Ok, the later one over the value of
\* the earlier, and a get_latest_state has found a state.
C14_Witness ==
    /\ \E w1 \in Writers, w2 \in Writers :
          /\ w1 # w2
          /\ writers[w1].result = "Ok" /\ writers[w2].result = "Ok"
          /\ writers[w1].key = writers[w2].key
    /\ got.ok

\* C15: when the value under the key is no longer the one insert_latest_state read,
\* its compare-and-swap fails, the call ends with an error and the database is as
\* the other writer left it.
C15_NoSilentLostUpdate ==
    [][\A w \in Writers :
          (CasStepOf(w) /\ db[writers[w].key] # writers[w].old_value) =>
              /\ writers'[w].pc = "done"
              /\ writers'[w].result \in {"Stored swap somehow changed, aborting saving",
                                        "Could not write in the DB"}
              /\ db' = db]_vars

\* One caller's insert ended with the compare-and-swap error while the other's
\* value, stored and flushed, is in the database.
C15_Witness ==
    \E w1 \in Writers, w2 \in Writers :
        /\ writers[w1].result = "Stored swap somehow changed, aborting saving"
        /\ writers[w2].result = "Ok"
        /\ writers[w1].key = writers[w2].key
        /\ db[writers[w1].key] # NoValue

\* C16: whenever insert_latest_state returns an error, the value stored for the swap
\* id is the one stored before the call.
C16_ErrorLeavesValue ==
    \A k \in SwapIds, v \in StoredStates, serOk \in BOOLEAN, getOk \in BOOLEAN,
       casOk \in BOOLEAN, flushOk \in BOOLEAN :
        LET r == insert_latest_state(db, db, k, v, serOk, getOk, casOk, flushOk)
        IN  ~r.ok => r.db[k] = db[k]

\* C17: in the step in which insert_latest_state returns Ok, the flush has completed:
\* the disk holds the tree, the value of the call's key included.
C17_OkOnlyAfterFlush ==
    [][\A w \in Writers :
          ReturnsOk(w) =>
              /\ disk' = db'
              /\ disk'[writers[w].key] # NoValue]_vars

\* An insert has returned Ok and its value is on disk, after an earlier flush had
\* failed.
C17_Witness ==
    \E w1 \in Writers, w2 \in Writers :
        /\ writers[w1].result = "Ok"
        /\ disk[writers[w1].key] = db[writers[w1].key]
        /\ disk[writers[w1].key] # NoValue
        /\ writers[w2].result = "Could not flush db"

\* C18: once an insert_latest_state has returned Ok for a swap id, get_latest_state
\* finds a value for it, whatever inserts and reads follow under any swap id.
C18_RecordNeverDestroyed ==
    \A k \in inserted : get_latest_state(db, k).ok

\* Both swap ids were stored, a later insert under one of them was refused, and both
\* are still found.
C18_Witness ==
    /\ inserted = SwapIds
    /\ \A k \in SwapIds : get_latest_state(db, k).ok
    /\ \E w \in Writers : writers[w].result = "Stored swap somehow changed, aborting saving"

\* What the outputs of a set of Bitcoin transactions add up to.
RECURSIVE SumOfOutputs(_)
SumOfOutputs(es) ==
    IF es = {} THEN 0
    ELSE LET e == CHOOSE x \in es : TRUE
         IN  e.tx.amount + SumOfOutputs(es \ {e})

\* The swap is complete: Bob reached State5, having claimed the Monero, and Alice
\* made the one transfer the protocol asks of her.
SwapCompleted ==
    /\ bob.tag = "State5"
    /\ \E c \in calls : c.op = "import_output" /\ c.ok
    /\ Cardinality(xmrChain) = 1

\* What the chain pays to Alice's addresses, and what Bob funded less what came
\* back to his refund address.
btc_alice_received(ch) ==
    SumOfOutputs({e \in ch : e.tx.to \in {AliceKeys.redeem_address,
                                          AliceKeys.punish_address}})
btc_bob_spent(ch) ==
    SumOfOutputs({e \in ch : e.tx.input = "funding"})
        - SumOfOutputs({e \in ch : e.tx.to = BobParams.refund_address})

\* C19: when the swap is complete, Alice has received btc less the fee of TxRedeem,
\* Bob's Monero balance has grown by exactly xmr, Bob has spent at least btc and
\* Alice at least xmr.
C19_AmountConservation ==
    SwapCompleted =>
        /\ btc_alice_received(chain) = BobParams.btc - TX_FEE
        /\ xmr_bob = BobParams.xmr
        /\ btc_bob_spent(chain) >= BobParams.btc
        /\ SumOfTransfers(xmrChain) >= BobParams.xmr

\* A complete swap: TxRedeem is on the chain and Bob has claimed the Monero.
C19_Witness ==
    /\ SwapCompleted
    /\ Known(chain, "redeem")
    /\ xmr_bob > 0

\* C20: when the handshake has completed between honest parties, with TxLock of the
\* agreed amount, Alice's swap() eventually returns.
C20_AliceSwapReturns ==
    (alicePc = "parked" /\ Amount_from_sat(aliceState.tx_lock.amount) = aliceState.btc)
        ~> (alicePc = "returned")

----------------------------------------------------------------------------
(* Properties of Alice's responses, of the epochs, of the quoted amounts, of *)
(* the adaptor signatures, of Bob's watcher and of the command line.        *)

\* C21: every message Alice has sent went out on the response channel of a request
\* of Bob that swap() had received, and no channel carries two responses.
C21_AliceOnlyResponds ==
    /\ \A r \in aliceSent : r.channel \in channels
    /\ \A r1 \in aliceSent, r2 \in aliceSent : r1.channel = r2.channel => r1 = r2

\* Alice has answered two requests for amounts and Bob's Message1, each on its own
\* channel.
C21_Witness ==
    /\ \E r \in aliceSent : r.msg.type = "Message1"
    /\ Cardinality({r \in aliceSent : r.msg.type = "Amounts"}) = 2

\* C25: for every signing key k, decryption scalar y and digest m, recover given
\* y.G, the signature decrypted with y from encsign(k, y.G, m) and that encrypted
\* signature returns y; and a Bob with the key k, whose TxRedeem Alice published
\* with the signature she decrypted with y from his encrypted signature, gets y as
\* s_a from watch_for_redeem_btc, which extracts the signature under his key from
\* the witness and recomputes his encrypted signature (his key is not Alice's).
C25_AdaptorRoundTrip ==
    (call.op = "recover" /\ ret # NoCall) =>
        /\ ret.recovered = [ok |-> TRUE, s |-> call.y]
        /\ \/ call.k = AliceKeys.a
           \/ /\ ret.watched.ok
              /\ ret.watched.state.tag = "State5"
              /\ ret.watched.state.s_a = call.y

\* Bob's key b and TxRedeem, with a y for which the decrypted signature was
\* normalised to the lower s, so that s^-1 s_hat is -y and it is the negation that
\* recover returns.
C25_Witness ==
    /\ call.op = "recover" /\ ret # NoCall
    /\ call.k = BobParams.b /\ call.digest.id = "redeem"
    /\ LET encsig == encsign(call.k, Secp(call.y), call.digest)
           sig == decrypt_signature(call.y, encsig)
       IN  (invert(sig.s) * encsig.s_hat) % 31 = negate(call.y)
    /\ ret.recovered = [ok |-> TRUE, s |-> call.y]
    /\ ret.watched.ok /\ ret.watched.state.s_a = call.y

\* C26: whenever TxRedeem is on the chain, confirmed or not, watch_for_redeem_btc
\* called from Bob's State4 succeeds and gives Alice's s_a, each time it is called;
\* and the step of next_state that runs it leaves the chain, the Monero chain, the
\* messages sent and the calls made of the wallets as they were.
C26_WatcherIdempotent ==
    /\ []((bob.tag = "State4" /\ Known(chain, "redeem")) =>
            LET r == State4_watch_for_redeem_btc(bob, chain)
            IN  /\ r.ok
                /\ r.state.tag = "State5"
                /\ r.state.s_a = AliceKeys.s_a)
    /\ [][(bob.tag = "State4" /\ bobPc = "delay_for" /\ bobPc' # "delay_for") =>
            /\ chain' = chain
            /\ xmrChain' = xmrChain
            /\ sent' = sent
            /\ calls' = calls
            /\ xmr_bob' = xmr_bob]_vars

\* Bob is in State4 and about to look for TxRedeem, which already has every
\* confirmation the chain can give.
C26_Witness ==
    /\ bob.tag = "State4" /\ bobPc = "delay_for"
    /\ \E e \in chain : e.tx.id = "redeem" /\ e.conf = MaxConf

\* The confirmations a status reports: none unless it is confirmed.
ConfirmationsOf(status) == IF status.tag = "Confirmed" THEN status.confirmations ELSE 0

\* C22: current_epoch returns Punish when TxCancel has at least punish_timelock
\* confirmations, otherwise Cancel when TxLock has at least cancel_timelock
\* confirmations, otherwise None; a count equal to the timelock counts as expired and
\* one less does not.
C22_CurrentEpoch ==
    call.op = "current_epoch" =>
        LET lock == ConfirmationsOf(call.tx_lock_status)
            cancel == ConfirmationsOf(call.tx_cancel_status)
        IN  /\ cancel >= call.punish_timelock => ret = "Punish"
            /\ (cancel < call.punish_timelock /\ lock >= call.cancel_timelock)
                  => ret = "Cancel"
            /\ (cancel < call.punish_timelock /\ lock < call.cancel_timelock)
                  => ret = "None"
            /\ cancel = call.punish_timelock => ret = "Punish"
            /\ cancel = call.punish_timelock - 1 => ret # "Punish"
            /\ (lock = call.cancel_timelock - 1) => ret # "Cancel"

\* current_epoch was called with TxCancel confirmed exactly punish_timelock times
\* under a TxLock past its cancel timelock, and returned Punish.
C22_Witness ==
    /\ call.op = "current_epoch"
    /\ call.tx_cancel_status = ScriptStatus_from_confirmations(call.punish_timelock)
    /\ is_confirmed_with(call.tx_lock_status, call.cancel_timelock)
    /\ ret = "Punish"

\* s * 10 000 * 100 as an integer of six limbs, computed as (s * 1000) * 1000 with
\* every carry kept.
ExactQuote(s) ==
    LET p1 == s[1] * 1000
        p2 == s[2] * 1000 + (p1 \div Limb)
        p3 == s[3] * 1000 + (p2 \div Limb)
        p4 == s[4] * 1000 + (p3 \div Limb)
        t == <<p1 % Limb, p2 % Limb, p3 % Limb, p4 % Limb, p4 \div Limb>>
        q1 == t[1] * 1000
        q2 == t[2] * 1000 + (q1 \div Limb)
        q3 == t[3] * 1000 + (q2 \div Limb)
        q4 == t[4] * 1000 + (q3 \div Limb)
        q5 == t[5] * 1000 + (q4 \div Limb)
    IN  <<q1 % Limb, q2 % Limb, q3 % Limb, q4 % Limb, q5 % Limb, q5 \div Limb>>

\* The quote of s fits in 64 bits.
QuoteFits(s) == ExactQuote(s)[5] = 0 /\ ExactQuote(s)[6] = 0

\* C23 as stated: for every satoshi amount calculate_amounts returns the amount
\* unchanged and exactly s * 10 000 * 100 piconero.
C23_QuoteIsExact ==
    call.op = "calculate_amounts" =>
        /\ ~ret.panicked
        /\ ret.btc = call.btc
        /\ ret.xmr \o <<0, 0>> = ExactQuote(call.btc)

\* C24: for every 64-bit satoshi amount calculate_amounts returns the exact product
\* or rejects the request (it neither wraps nor panics).
C24_QuoteNeverWraps ==
    call.op = "calculate_amounts" =>
        /\ ~ret.panicked
        /\ QuoteFits(call.btc) => ret.xmr \o <<0, 0>> = ExactQuote(call.btc)
        /\ ~QuoteFits(call.btc) => "rejected" \in DOMAIN ret

\* The call of parse_args_and_apply_defaults the state records, if any.
ParsedArgs == call.op = "parse_args_and_apply_defaults"

\* C27: for every subcommand taking them, an Electrum URL, a Bitcoin target block
\* or a Monero daemon address given on the command line is used unchanged; one left
\* out is the testnet default if --testnet is given and the mainnet default if it
\* is not; env_config and the rendezvous namespace follow the same flag.
C27_ExplicitValuesAndDefaults ==
    (ParsedArgs /\ ret.ok) =>
        LET raw == call.args.cmd
            cmd == ret.value.cmd
            testnet == call.args.testnet
        IN  /\ cmd.type = raw.type
            /\ ret.value.env_config = (IF testnet THEN "Testnet" ELSE "Mainnet")
            /\ raw.type \in {"BuyXmr", "Resume", "Cancel", "Refund"} =>
                  /\ raw.bitcoin_electrum_rpc_url.some =>
                        cmd.bitcoin_electrum_rpc_url = raw.bitcoin_electrum_rpc_url.value
                  /\ ~raw.bitcoin_electrum_rpc_url.some =>
                        /\ testnet =>
                              cmd.bitcoin_electrum_rpc_url = DEFAULT_ELECTRUM_RPC_URL_TESTNET
                        /\ ~testnet =>
                              cmd.bitcoin_electrum_rpc_url = DEFAULT_ELECTRUM_RPC_URL
                  /\ raw.bitcoin_target_block.some =>
                        cmd.bitcoin_target_block = raw.bitcoin_target_block.value
                  /\ ~raw.bitcoin_target_block.some =>
                        /\ testnet =>
                              cmd.bitcoin_target_block
                                  = DEFAULT_BITCOIN_CONFIRMATION_TARGET_TESTNET
                        /\ ~testnet =>
                              cmd.bitcoin_target_block = DEFAULT_BITCOIN_CONFIRMATION_TARGET
            /\ raw.type \in {"BuyXmr", "Resume"} =>
                  /\ raw.monero_daemon_address.some =>
                        cmd.monero_daemon_address = raw.monero_daemon_address.value
                  /\ ~raw.monero_daemon_address.some =>
                        /\ testnet =>
                              cmd.monero_daemon_address
                                  = DEFAULT_MONERO_DAEMON_ADDRESS_STAGENET
                        /\ ~testnet =>
                              cmd.monero_daemon_address = DEFAULT_MONERO_DAEMON_ADDRESS
            /\ raw.type = "ListSellers" =>
                  cmd.namespace = (IF testnet THEN "Testnet" ELSE "Mainnet")

\* A testnet buy-xmr with a target block given and the Electrum URL left out was parsed.
C27_Witness ==
    /\ ParsedArgs
    /\ ret.ok
    /\ call.args.testnet
    /\ call.args.cmd.type = "BuyXmr"
    /\ call.args.cmd.bitcoin_target_block = Some(6)
    /\ ~call.args.cmd.bitcoin_electrum_rpc_url.some
    /\ ret.value.cmd.bitcoin_target_block = 6
    /\ ret.value.cmd.bitcoin_electrum_rpc_url = DEFAULT_ELECTRUM_RPC_URL_TESTNET

\* The network --testnet selects for the Monero receive address.
SelectedMoneroNetwork == IF call.args.testnet THEN "Stagenet" ELSE "Mainnet"

\* The data directory can be determined: --data-base-dir is given or the system
\* has a data directory.
DataDirResolves == call.args.data.some \/ call.system_data_dir.ok

\* C28 as stated: a buy-xmr whose Monero receive address is not on the network
\* --testnet selects (Stagenet with the flag, Mainnet without) is rejected with
\* MoneroAddressNetworkMismatch carrying the expected and the actual network; one
\* whose address is on that network is accepted with the address unchanged.
C28_MismatchWhenever ==
    (ParsedArgs /\ call.args.cmd.type = "BuyXmr") =>
        LET address == call.args.cmd.monero_receive_address
        IN  /\ address.network # SelectedMoneroNetwork =>
                  /\ ~ret.ok
                  /\ ret.err = [error |-> "MoneroAddressNetworkMismatch",
                                expected |-> SelectedMoneroNetwork,
                                actual |-> address.network]
            /\ address.network = SelectedMoneroNetwork =>
                  /\ ret.ok
                  /\ ret.value.cmd.monero_receive_address = address

\* C28, amended: when the data directory can be determined, a buy-xmr whose Monero
\* receive address is not on the network --testnet selects is rejected with
\* MoneroAddressNetworkMismatch carrying the expected and the actual network, and
\* one whose address is on that network is accepted with the address unchanged;
\* when it cannot, the buy-xmr is rejected with the error of the data directory,
\* whatever the address.
C28_MoneroAddressNetwork ==
    (ParsedArgs /\ call.args.cmd.type = "BuyXmr") =>
        LET address == call.args.cmd.monero_receive_address
        IN  /\ (address.network # SelectedMoneroNetwork /\ DataDirResolves) =>
                  /\ ~ret.ok
                  /\ ret.err = [error |-> "MoneroAddressNetworkMismatch",
                                expected |-> SelectedMoneroNetwork,
                                actual |-> address.network]
            /\ (address.network = SelectedMoneroNetwork /\ DataDirResolves) =>
                  /\ ret.ok
                  /\ ret.value.cmd.monero_receive_address = address
            /\ ~DataDirResolves =>
                  /\ ~ret.ok
                  /\ ret.err = call.system_data_dir.err

\* A testnet buy-xmr with a mainnet Monero address was rejected with the mismatch.
C28_Witness ==
    /\ ParsedArgs
    /\ call.args.cmd.type = "BuyXmr"
    /\ call.args.testnet
    /\ call.args.cmd.monero_receive_address.network = "Mainnet"
    /\ ~ret.ok
    /\ ret.err = [error |-> "MoneroAddressNetworkMismatch", expected |-> "Stagenet",
                  actual |-> "Mainnet"]

\* The network --testnet selects for a Bitcoin address.
SelectedBitcoinNetwork == IF call.args.testnet THEN "Testnet" ELSE "Bitcoin"

\* C29: argument parsing rejects every address on the wrong network: a buy-xmr
\* whose Bitcoin change address is on another network than the one --testnet
\* selects fails, as one with a wrong-network Monero address does.
C29_WrongNetworkAddressRejected ==
    (ParsedArgs /\ call.args.cmd.type = "BuyXmr") =>
        /\ call.args.cmd.monero_receive_address.network # SelectedMoneroNetwork => ~ret.ok
        /\ call.args.cmd.bitcoin_change_address.network # SelectedBitcoinNetwork => ~ret.ok

\* C30: the data directory of every command is the base directory (the value of
\* --data-base-dir if given, the default of the system joined with "cli" if not)
\* joined with "testnet" if --testnet is set and with "mainnet" if it is not.
C30_DataDir ==
    (ParsedArgs /\ ret.ok) =>
        LET base_dir == IF call.args.data.some THEN call.args.data.value
                        ELSE call.system_data_dir.value \o <<"cli">>
        IN  /\ ~call.args.data.some => call.system_data_dir.ok
            /\ call.args.testnet => ret.value.data_dir = base_dir \o <<"testnet">>
            /\ ~call.args.testnet => ret.value.data_dir = base_dir \o <<"mainnet">>

\* A testnet command without --data-base-dir was parsed.
C30_Witness ==
    /\ ParsedArgs
    /\ ret.ok
    /\ call.args.testnet
    /\ ~call.args.data.some
    /\ ret.value.data_dir = <<"home", "user", "data", "xmr-btc-swap", "cli", "testnet">>

----------------------------------------------------------------------------
(* Properties of the automated swap backend, of Bob's refund, keys and      *)
(* transitions, of Alice's handshake and of the epochs over time.           *)

\* C31: when the backend is started with --resume-only, no request for a new swap
\* is accepted: every swap on the channel or in a task is one the database held
\* unfinished.
C31_ResumeOnlyAcceptsNoNewSwap ==
    (asb.pc = "running" /\ asb.resume_only) => AsbKnown(asb) \subseteq asb.unfinished

\* C32: a swap that ends with an error is only logged: the step leaves the
\* backend running, the channel as it was and every other task as it was, and a
\* running backend keeps running.
C32_FailedSwapIsOnlyLogged ==
    [][/\ asb.pc = "running" => asb'.pc = "running"
       /\ \A id \in AsbSwapIds :
             (asb.tasks[id] = "running" /\ asb'.tasks[id] = "failed") =>
                /\ asb'.swap_receiver = asb.swap_receiver
                /\ \A other \in AsbSwapIds \ {id} : asb'.tasks[other] = asb.tasks[other]
                /\ asb'.events
                      = Append(asb.events, [event |-> "Swap failed", swap_id |-> id])]_vars

\* A swap failed while another was running, and a third was started after the
\* failure.
C32_Witness ==
    \E i, j, k \in DOMAIN asb.events :
        /\ i < j
        /\ j < k
        /\ asb.events[i].event = "spawned"
        /\ asb.events[j].event = "Swap failed"
        /\ asb.events[k].event = "spawned"
        /\ asb.events[i].swap_id # asb.events[j].swap_id
        /\ asb.tasks[asb.events[i].swap_id] = "running"
        /\ asb.tasks[asb.events[k].swap_id] = "running"

\* Whether the node takes the TxCancel that refund_btc signs, in this state.
TxCancelBroadcastOk ==
    LET st == Held
        tx_cancel == TxCancel_new(st.tx_lock, st.refund_timelock, st.A, public(st.b))
    IN  broadcast_signed_transaction(chain, tx_cancel,
            [sig_a |-> st.tx_cancel_sig_a, sig_b |-> sign(st.b, digest(tx_cancel))]).ok

\* C33: refund_btc broadcasts TxCancel first and TxRefund second.  It comes to its
\* broadcast of TxRefund only in the step in which the node has taken its TxCancel,
\* so that the node has TxCancel whenever it is there; TxRefund comes to the node
\* only in that second broadcast; and a refund_btc whose signing of TxCancel fails,
\* or whose broadcast of it fails, the node refusing it or not answering, returns
\* an error at once and leaves the chain as it was.
C33_CancelBeforeRefund ==
    /\ [](refundPc = "broadcast_tx_refund" => Known(chain, "cancel"))
    /\ [][/\ NewlyKnown("refund") =>
                /\ refundPc = "broadcast_tx_refund" /\ refundPc' = "idle"
                /\ Known(chain, "cancel")
          /\ (refundPc = "idle" /\ refundPc' = "broadcast_tx_refund") =>
                /\ TxCancelBroadcastOk
                /\ Known(chain', "cancel")
          /\ \A signOk \in BOOLEAN, rpc \in BOOLEAN, signRefundOk \in BOOLEAN :
                (RefundBtcCancelCall(signOk, rpc, signRefundOk)
                    /\ ~(signOk /\ rpc /\ TxCancelBroadcastOk)) =>
                   /\ lastErr' # "none"
                   /\ refundPc' = "idle"
                   /\ chain' = chain]_vars

\* refund_btc has returned Ok: TxCancel and TxRefund are both with the node.
C33_Witness ==
    /\ kept.tag = "State3"
    /\ refundPc = "idle"
    /\ lastErr = "none"
    /\ Known(chain, "cancel")
    /\ Known(chain, "refund")
    /\ Entry(chain, "refund").witness.sig_b = sign(kept.b, digest(Entry(chain, "refund").tx))

\* C34: the Monero keys agree across Bob's states: the view key of every state
\* from State1 on is v_a + v_b; the address whose transfer watch_for_lock_xmr has
\* checked is that of S_a_monero + s_b.G and of this view key; and the private
\* spend key claim_xmr imports is s_a + s_b, with the same view key, the key pair
\* of the address checked.
C34_MoneroKeysConsistent ==
    /\ bob.tag \in {"State1", "State2", "State3", "State4", "State5"} =>
          /\ \E m0 \in received : m0.type = "Message0" /\ bob.v = m0.v_a + BobParams.v_b
          /\ bob.s_b = BobParams.s_b
    /\ bob.tag \in {"State4", "State5"} =>
          \E c \in calls :
             /\ c.op = "check_transfer" /\ c.ok
             /\ c.spend = Ed(bob.S_a_monero.k + BobParams.s_b)
             /\ c.view = Ed(bob.v)
    /\ \A i \in calls :
          i.op = "import_output" =>
             /\ i.spend_key = AliceKeys.s_a + BobParams.s_b
             /\ i.view_key = AliceKeys.v_a + BobParams.v_b
             /\ \E c \in calls :
                   /\ c.op = "check_transfer" /\ c.ok
                   /\ c.spend = Ed(i.spend_key)
                   /\ c.view = Ed(i.view_key)

\* Bob has checked the transfer to the joint address and imported its output.
C34_Witness ==
    /\ bob.tag = "State5"
    /\ \E c \in calls : c.op = "check_transfer" /\ c.ok
    /\ \E i \in calls : i.op = "import_output" /\ i.ok

\* The place of a state in the order State0, ..., State5.
StateIndex(tag) ==
    CASE tag = "State0" -> 0 [] tag = "State1" -> 1 [] tag = "State2" -> 2
      [] tag = "State3" -> 3 [] tag = "State4" -> 4 [] tag = "State5" -> 5

\* A step of next_state, from one await to the next.
NextStateStep ==
    \/ NextState0Send \/ NextState0Receive \/ NextState0Build
    \/ NextState1Send \/ NextState1Receive
    \/ NextState2Sign \/ NextState2Broadcast \/ NextState2Send
    \/ NextState3Receive \/ NextState3Check
    \/ NextState4Send \/ NextState4Watch \/ NextState4Claim
    \/ NextState5

\* A step in which a call of next_state returns.
NextStateReturns == NextStateStep /\ bobPc' = "idle"

\* C35: a call of next_state that returns Ok hands back the state that follows the
\* one it was given in the order State0, ..., State5; given State5 it hands back
\* the same State5, sends nothing and calls no wallet.  No other step touches the
\* state.
C35_OneStepForward ==
    [][/\ (NextStateReturns /\ lastErr' = "none") =>
             IF bob.tag = "State5"
             THEN bob' = bob /\ sent' = sent /\ calls' = calls /\ chain' = chain
                  /\ xmrChain' = xmrChain /\ received' = received
             ELSE StateIndex(bob'.tag) = StateIndex(bob.tag) + 1
       /\ bob' # bob =>
             /\ NextStateReturns
             /\ bob.tag # "State5"
             /\ lastErr' # "none" <=> bob'.tag = "Dropped"]_vars

\* Bob has gone through every state: the four messages are sent, the output is
\* imported and next_state has handed back State5.
C35_Witness ==
    /\ bob.tag = "State5"
    /\ bobPc = "idle"
    /\ lastErr = "none"
    /\ {m.type : m \in sent} = {"Message0", "Message1", "Message2", "Message3"}
    /\ Called("import_output")

\* C36: Bob's Message2 is sent only when TxLock has been signed and taken by the
\* node; a call of next_state in which lock_btc fails sends nothing, hands back no
\* State3, and no Message2 is sent afterwards.
C36_Message2OnlyAfterLock ==
    /\ []((\E m \in sent : m.type = "Message2") =>
             /\ Known(chain, "lock")
             /\ \E c \in calls : c.op = "sign_tx_lock" /\ c.ok)
    /\ []((\E c \in calls : c.op = "sign_tx_lock" /\ ~c.ok) =>
             /\ ~\E m \in sent : m.type = "Message2"
             /\ bob.tag = "Dropped")
    /\ [][((NextState2Sign \/ NextState2Broadcast)
            /\ lastErr' \in {"SignTxLock", "BroadcastSignedTransaction"}) =>
             /\ sent' = sent
             /\ bob'.tag = "Dropped"]_vars

\* Bob has published TxLock and sent Message2.
C36_Witness ==
    /\ bob.tag = "State3"
    /\ Known(chain, "lock")
    /\ \E m \in sent : m.type = "Message2"

\* C37: when the handshake is complete the events swap() has taken are, in this
\* order, at least one request for amounts, Bob's Message0, then at once Message1,
\* which Alice has answered with her Message1, and Message2; and while no request
\* for amounts has come, a Message0 is passed over: swap() stays in its loop and
\* holds no state.
C37_HandshakeOrder ==
    /\ alicePc \in {"parked", "returned"} =>
          LET n == Len(aliceEvents)
          IN  /\ n >= 4
              /\ aliceEvents[n] = "Message2"
              /\ aliceEvents[n - 1] = "Message1"
              /\ aliceEvents[n - 2] = "Message0"
              /\ \E i \in 1 .. n - 3 : aliceEvents[i] = "Request"
              /\ \A i \in 1 .. n - 3 :
                    aliceEvents[i] \in {"ConnectionEstablished", "Request", "Message0"}
              /\ \E r \in aliceSent : r.channel = n - 1 /\ r.msg.type = "Message1"
              /\ aliceState.tag = "State3"
    /\ (\A i \in DOMAIN aliceEvents :
            aliceEvents[i] \in {"ConnectionEstablished", "Message0"}) =>
          /\ alicePc = "loop"
          /\ aliceState = NoAliceState
          /\ aliceSent = {}

\* The handshake is complete although Bob's first Message0 came before he had
\* asked for amounts.
C37_Witness ==
    /\ alicePc = "parked"
    /\ aliceEvents = <<"Message0", "Request", "Message0", "Message1", "Message2">>

\* The amounts responses Alice has sent.
AmountsSent == {r \in aliceSent : r.msg.type = "Amounts"}

\* C38: the amounts of Alice's state are those of the last amounts response she
\* sent, however many requests came before Message0.
C38_AmountsOfLastResponse ==
    aliceState # NoAliceState =>
        \E r \in AmountsSent :
            /\ \A o \in AmountsSent : o.channel <= r.channel
            /\ aliceState.btc = r.msg.amounts.btc
            /\ aliceState.xmr = r.msg.amounts.xmr

\* Alice has answered two requests with different amounts and has then taken
\* Message0.
C38_Witness ==
    /\ aliceState # NoAliceState
    /\ \E r1 \in AmountsSent, r2 \in AmountsSent : r1.msg.amounts # r2.msg.amounts

\* The place of an epoch in the order None, Cancel, Punish.
EpochIndex(epoch) == CASE epoch = "None" -> 0 [] epoch = "Cancel" -> 1 [] epoch = "Punish" -> 2

\* C39: as transactions reach the node and blocks are mined, the confirmations of
\* TxLock and of TxCancel only growing, the epoch current_epoch gives for the
\* timelocks of the swap never goes back in the order None, Cancel, Punish.
C39_EpochNeverRegresses ==
    [][EpochIndex(epoch_of(chain')) >= EpochIndex(epoch_of(chain))]_vars

\* The swap is in the punish epoch: TxCancel, published once TxLock had passed its
\* timelock, has passed its own.
C39_Witness ==
    /\ epoch_of(chain) = "Punish"
    /\ Known(chain, "lock") /\ Entry(chain, "lock").conf > RefundTimelock
    /\ Known(chain, "cancel") /\ Entry(chain, "cancel").conf = PunishTimelock

\* The parameters of the swap and Bob's own secrets, as a state holds them.
SwapParameters(st) ==
    <<st.btc, st.xmr, st.refund_timelock, st.punish_timelock, st.refund_address, st.b,
      st.s_b>>

\* What State0::receive sets, as a state holds it.
FromMessage0(st) ==
    <<st.A, st.S_a_monero, st.S_a_bitcoin, st.v, st.redeem_address, st.punish_address,
      st.tx_lock>>

\* What State1::receive sets, as a state holds it; State5 names the signature
\* tx_cancel_sig.
FromMessage1(st) ==
    <<IF st.tag = "State5" THEN st.tx_cancel_sig ELSE st.tx_cancel_sig_a,
      st.tx_refund_encsig>>

\* C40: btc, xmr, the two timelocks, the refund address, b and s_b of every state
\* from State1 to State5 are those of the State0 the swap began with; and A, S_a,
\* v, the redeem and punish addresses and tx_lock once set by State0::receive, and
\* tx_cancel_sig_a and tx_refund_encsig once set by State1::receive, are the same
\* in the state every later transition hands back.
C40_ParametersCarriedUnchanged ==
    /\ [](bob.tag \in {"State1", "State2", "State3", "State4", "State5"} =>
            SwapParameters(bob)
                = SwapParameters(State0_new(BobParams, RefundTimelock, PunishTimelock)))
    /\ [][/\ (/\ bob.tag \in {"State1", "State2", "State3", "State4", "State5"}
              /\ bob'.tag \in {"State1", "State2", "State3", "State4", "State5"})
             => FromMessage0(bob') = FromMessage0(bob)
          /\ (/\ bob.tag \in {"State2", "State3", "State4", "State5"}
              /\ bob'.tag \in {"State2", "State3", "State4", "State5"})
             => FromMessage1(bob') = FromMessage1(bob)]_vars

\* Bob's State5 holds what the handshake gave him: Alice's addresses and her
\* signature on TxCancel.
C40_Witness ==
    /\ bob.tag = "State5"
    /\ bob.redeem_address = AliceKeys.redeem_address
    /\ bob.punish_address = AliceKeys.punish_address
    /\ bob.refund_address = BobParams.refund_address
    /\ bob.tx_cancel_sig.signer = Secp(AliceKeys.a)

============================================================================
